---------------------------- MODULE Spec2Model ----------------------------
(***************************************************************************)
(* Model of the text core of the SAPF editor extension: the bracket block  *)
(* locators (text/block-finder), the indentation formatter                 *)
(* (text/formatter) and the editor commands that drive them.               *)
(*                                                                         *)
(* A text is a sequence of one-character strings.  Offsets are 0-based as  *)
(* in the source; sequence indices are 1-based, so text[i] of the source   *)
(* is text[i + 1] here.                                                    *)
(***************************************************************************)
EXTENDS Integers, Sequences, FiniteSets, TLC

VARIABLES
    text,         \* editor.document.getText(), the document of the block commands
    cursor,       \* document.offsetAt(editor.selection.active)
    anchor,       \* document.offsetAt(editor.selection.anchor)
    bracketKind,  \* configuration value sapf.codeBlockBrackets
    result,       \* what the last locator call returned (or that it threw)
    warning,      \* TRUE once showWarningMessage was called by the last call
    sent,         \* texts handed to repl.send by the last command
    doc,          \* the document of the format command
    fmtPc,        \* position of lintSapfDocument / formatSapfCode
    fmtLines,     \* code.split('\n') of the running formatSapfCode
    fmtIdx,       \* number of lines the for-loop has processed
    indentLevel,  \* let indentLevel of formatSapfCode
    formatted,    \* const formatted: string[] of formatSapfCode
    indents,      \* the arguments given to ' '.repeat, one per emitted line
    fmtRuns,      \* number of format commands completed on the document
    message,      \* the notifications shown by lintSapfDocument, oldest first
    output,            \* parseSapfHelpOutput: the raw help text given to it
    lines,             \* const lines = output.split('\n')
    parsePc,           \* position of parseSapfHelpOutput
    lineIdx,           \* number of lines the for-loop has handled
    catalog,           \* const result of parseSapfHelpOutput
    currentCategory,   \* let currentCategory: Null or a category name
    inFunctionSection, \* let inFunctionSection
    languageData,      \* the language data handed to loadKeywords
    keywords,          \* the Map returned by loadKeywords, in insertion order
    thisKeywords,      \* LanguageCommands: this.keywords, the active index
    languageProviders, \* this.languageProviders: the providers of the active index
    registered,        \* every provider registered with the editor, oldest first
    subscriptions,     \* context.subscriptions
    localFile,         \* the file language-local.json of the extension path
    regen,             \* the running handlers of the regenerate command
    removes,           \* number of remove commands handled
    shown,             \* the last notification of the language commands
    maps,              \* the Map objects made by loadKeywords, by identity
    thisMap,           \* the identity of the Map this.keywords refers to
    reloading,         \* the command handler between dispose and register
    request,           \* the completion or hover request being answered
    terminal,          \* ReplManager: this.terminal, 0 for undefined
    terminals,         \* the terminals made by createTerminal, by identity
    replShown,         \* the notifications of the last ReplManager call
    replCall           \* the last ReplManager call and how it ended

locVars == <<text, cursor, anchor, bracketKind, result, warning, sent>>
fmtVars == <<doc, fmtPc, fmtLines, fmtIdx, indentLevel, formatted, indents, fmtRuns, message>>
langVars == <<output, lines, parsePc, lineIdx, catalog, currentCategory,
              inFunctionSection, languageData, keywords>>
cmdVars == <<thisKeywords, languageProviders, registered, subscriptions, localFile,
             regen, removes, shown, maps, thisMap, reloading, request>>
replVars == <<terminal, terminals, replShown, replCall>>
vars == <<text, cursor, anchor, bracketKind, result, warning, sent,
          doc, fmtPc, fmtLines, fmtIdx, indentLevel, formatted, indents, fmtRuns, message,
          output, lines, parsePc, lineIdx, catalog, currentCategory,
          inFunctionSection, languageData, keywords,
          thisKeywords, languageProviders, registered, subscriptions, localFile,
          regen, removes, shown, maps, thisMap, reloading, request,
          terminal, terminals, replShown, replCall>>

---------------------------------------------------------------------------
(* Bounds of the model.                                                    *)

\* longest document of the block commands over the whole TextAlphabet
MaxLen == 3
\* longest document of the block commands made of round brackets only
MaxNestLen == 6
\* longest selection (in characters) on either side of the cursor
MaxSel == 1
\* longest exhaustively enumerated document of the format command
MaxFmtLen == 4
\* format commands run on one document
MaxRuns == 2

---------------------------------------------------------------------------
(* Strings as sequences of characters.                                     *)

Max(a, b) == IF a >= b THEN a ELSE b
Min(a, b) == IF a <= b THEN a ELSE b

\* all sequences over S of length at most n
SeqsUpTo(S, n) == UNION {[1..k -> S] : k \in 0..n}

\* String.prototype.slice(a, b) for 0 <= a, b: the characters at offsets a..b-1
Slice(s, a, b) == SubSeq(s, a + 1, b)

\* the characters String.prototype.trim strips and the regex class \s matches
IsWhite(c) == c \in {" ", "\t", "\n", "\r"}

RECURSIVE TrimStart(_)
TrimStart(s) ==
    IF s = <<>> THEN s
    ELSE IF IsWhite(Head(s)) THEN TrimStart(Tail(s)) ELSE s

RECURSIVE TrimEnd(_)
TrimEnd(s) ==
    IF s = <<>> THEN s
    ELSE IF IsWhite(s[Len(s)]) THEN TrimEnd(SubSeq(s, 1, Len(s) - 1)) ELSE s

\* String.prototype.trim
Trim(s) == TrimEnd(TrimStart(s))

\* String.prototype.split('\n'): always at least one piece
RECURSIVE Split(_)
Split(s) ==
    IF \A k \in 1..Len(s) : s[k] # "\n" THEN <<s>>
    ELSE LET k == CHOOSE j \in 1..Len(s) :
                      s[j] = "\n" /\ \A m \in 1..(j - 1) : s[m] # "\n"
         IN <<SubSeq(s, 1, k - 1)>> \o Split(SubSeq(s, k + 1, Len(s)))

\* Array.prototype.join('\n')
RECURSIVE Join(_)
Join(ls) ==
    IF ls = <<>> THEN <<>>
    ELSE IF Len(ls) = 1 THEN ls[1]
    ELSE ls[1] \o <<"\n">> \o Join(Tail(ls))

\* String.prototype.repeat for a count >= 0 (a negative count throws RangeError)
RECURSIVE Repeat(_, _)
Repeat(c, n) == IF n <= 0 THEN <<>> ELSE <<c>> \o Repeat(c, n - 1)

---------------------------------------------------------------------------
(* The editor's document model: positions, lines, selection.               *)

\* number of line breaks before offset off
LineOf(t, off) == Cardinality({k \in 1..off : t[k] = "\n"})

\* offset of the first character of line ln (0-based line number)
LineStart(t, ln) ==
    IF ln = 0 THEN 0
    ELSE CHOOSE k \in 1..Len(t) : t[k] = "\n" /\ LineOf(t, k) = ln

\* document.positionAt(offset)
PositionAt(t, off) ==
    [line |-> LineOf(t, off), character |-> off - LineStart(t, LineOf(t, off))]

\* document.offsetAt(position)
OffsetAt(t, pos) == LineStart(t, pos.line) + pos.character

\* document.lineAt(line): the line's text without its line break, and its range
LineAt(t, ln) ==
    LET txt == Split(t)[ln + 1]
    IN [text |-> txt,
        range |-> <<[line |-> ln, character |-> 0],
                    [line |-> ln, character |-> Len(txt)]>>]

\* editor.selection as a range: start is the smaller of anchor and active
SelStart(c, a) == Min(c, a)
SelEnd(c, a) == Max(c, a)
SelectionRange(t, c, a) == <<PositionAt(t, SelStart(c, a)), PositionAt(t, SelEnd(c, a))>>

\* document.getText(editor.selection)
SelText(t, c, a) == Slice(t, SelStart(c, a), SelEnd(c, a))

---------------------------------------------------------------------------
(* Bracket configuration (config/constants).                               *)

\* const brackets: the own properties of the table
brackets ==
    [round |-> <<"(", ")">>, square |-> <<"[", "]">>, curly |-> <<"{", "}">>]

defaultBracketType == "round"

\* the JavaScript value of brackets[kind]: the pair of a kind of the table,
\* undefined for every other configured string
BracketsLookup(kind) ==
    IF kind \in DOMAIN brackets
    THEN [tag |-> "pair", open |-> brackets[kind][1], close |-> brackets[kind][2]]
    ELSE [tag |-> "undefined", open |-> "", close |-> ""]

---------------------------------------------------------------------------
(* text/utils getLine.                                                     *)

BlockInfo(txt, rng) == [text |-> txt, range |-> rng]

\* faulty variant of getLine: the line's text is returned untrimmed
getLine_NoTrim(t, c, a) ==
    IF SelText(t, c, a) # <<>>
    THEN BlockInfo(SelText(t, c, a), SelectionRange(t, c, a))
    ELSE LET ln == LineAt(t, PositionAt(t, c).line)
         IN BlockInfo(ln.text, ln.range)

getLine(t, c, a) ==
    IF SelText(t, c, a) # <<>>
    THEN BlockInfo(SelText(t, c, a), SelectionRange(t, c, a))
    ELSE LET ln == LineAt(t, PositionAt(t, c).line)
         IN BlockInfo(Trim(ln.text), ln.range)

---------------------------------------------------------------------------
(* text/block-finder getBlockOrLine: the scan.                             *)

GbScanInit == [stack |-> <<>>, start |-> -1, end |-> -1]

\* faulty variant of GbScanStep: a found block is never replaced by a wider one
GbScanStep_KeepFirst(st, ch, i, c, open, close) ==
    IF ch = open
    THEN [st EXCEPT !.stack = Append(st.stack, i)]
    ELSE IF ch = close /\ Len(st.stack) > 0
    THEN LET openIndex == st.stack[Len(st.stack)]
             popped == SubSeq(st.stack, 1, Len(st.stack) - 1)
         IN IF openIndex < c /\ i > c /\ st.start = -1
            THEN [stack |-> popped, start |-> openIndex, end |-> i]
            ELSE [st EXCEPT !.stack = popped]
    ELSE st

\* faulty variant of GbScanStep: the close bracket's offset may equal the cursor
GbScanStep_CloseInclusive(st, ch, i, c, open, close) ==
    IF ch = open
    THEN [st EXCEPT !.stack = Append(st.stack, i)]
    ELSE IF ch = close /\ Len(st.stack) > 0
    THEN LET openIndex == st.stack[Len(st.stack)]
             popped == SubSeq(st.stack, 1, Len(st.stack) - 1)
         IN IF openIndex < c /\ i >= c /\ (st.start = -1 \/ openIndex < st.start)
            THEN [stack |-> popped, start |-> openIndex, end |-> i]
            ELSE [st EXCEPT !.stack = popped]
    ELSE st

\* faulty variant of GbScanStep: a close bracket met with an empty stack
\* discards the block found so far
GbScanStep_ExtraCloseResets(st, ch, i, c, open, close) ==
    IF ch = open
    THEN [st EXCEPT !.stack = Append(st.stack, i)]
    ELSE IF ch = close /\ Len(st.stack) > 0
    THEN LET openIndex == st.stack[Len(st.stack)]
             popped == SubSeq(st.stack, 1, Len(st.stack) - 1)
         IN IF openIndex < c /\ i > c /\ (st.start = -1 \/ openIndex < st.start)
            THEN [stack |-> popped, start |-> openIndex, end |-> i]
            ELSE [st EXCEPT !.stack = popped]
    ELSE IF ch = close
    THEN GbScanInit
    ELSE st

\* one iteration of the for-loop at offset i over character ch
GbScanStep(st, ch, i, c, open, close) ==
    IF ch = open
    THEN [st EXCEPT !.stack = Append(st.stack, i)]
    ELSE IF ch = close /\ Len(st.stack) > 0
    THEN LET openIndex == st.stack[Len(st.stack)]
             popped == SubSeq(st.stack, 1, Len(st.stack) - 1)
         IN IF openIndex < c /\ i > c /\ (st.start = -1 \/ openIndex < st.start)
            THEN [stack |-> popped, start |-> openIndex, end |-> i]
            ELSE [st EXCEPT !.stack = popped]
    ELSE st

\* the loop state after the iterations i = 0 .. n-1
RECURSIVE GbScan(_, _, _, _, _)
GbScan(t, n, c, open, close) ==
    IF n = 0 THEN GbScanInit
    ELSE GbScanStep(GbScan(t, n - 1, c, open, close), t[n], n - 1, c, open, close)

\* faulty variant of GbLocate: the slice takes the close bracket with it
GbLocate_WithClose(t, c, a, open, close) ==
    LET st == GbScan(t, Len(t), c, open, close)
    IN IF st.start # -1 /\ st.end # -1
       THEN BlockInfo(Slice(t, st.start + 1, st.end + 1),
                      <<PositionAt(t, st.start), PositionAt(t, st.end)>>)
       ELSE getLine(t, c, a)

\* lines 29-57: scan with the chosen pair, then the block or the line
GbLocate(t, c, a, open, close) ==
    LET st == GbScan(t, Len(t), c, open, close)
    IN IF st.start # -1 /\ st.end # -1
       THEN BlockInfo(Slice(t, st.start + 1, st.end),
                      <<PositionAt(t, st.start), PositionAt(t, st.end)>>)
       ELSE getLine(t, c, a)

Outcome(status, info, warned) ==
    [status |-> status, text |-> info.text, range |-> info.range, warned |-> warned]

NoInfo == BlockInfo(<<>>, <<>>)

\* const [openBracket, closeBracket] = v throws TypeError unless v is iterable
GbDestructure(t, c, a, kind, warned) ==
    LET v == BracketsLookup(kind)
    IN IF v.tag = "pair"
       THEN Outcome("returned", GbLocate(t, c, a, v.open, v.close), warned)
       ELSE Outcome("threw", NoInfo, warned)

\* getBlockOrLine of text/block-finder: validation by === undefined
getBlockOrLine(t, c, a, kind) ==
    IF SelText(t, c, a) # <<>>
    THEN Outcome("returned", BlockInfo(SelText(t, c, a), SelectionRange(t, c, a)), FALSE)
    ELSE IF BracketsLookup(kind).tag = "undefined"
    THEN GbDestructure(t, c, a, defaultBracketType, TRUE)
    ELSE GbDestructure(t, c, a, kind, FALSE)

\* getBlockOrLine of the monolithic extension: validation by === null, which
\* no value of brackets[kind] satisfies (undefined === null is false)
getBlockOrLineMonolithic(t, c, a, kind) ==
    IF SelText(t, c, a) # <<>>
    THEN Outcome("returned", BlockInfo(SelText(t, c, a), SelectionRange(t, c, a)), FALSE)
    ELSE IF BracketsLookup(kind).tag = "null"
    THEN GbDestructure(t, c, a, "round", TRUE)
    ELSE GbDestructure(t, c, a, kind, FALSE)

\* getBlockOrLine of src/extension.ts: validation by !brackets[kind] (falsy)
getBlockOrLineExtension(t, c, a, kind) ==
    IF SelText(t, c, a) # <<>>
    THEN Outcome("returned", BlockInfo(SelText(t, c, a), SelectionRange(t, c, a)), FALSE)
    ELSE IF BracketsLookup(kind).tag \in {"undefined", "null"}
    THEN GbDestructure(t, c, a, "round", TRUE)
    ELSE GbDestructure(t, c, a, kind, FALSE)

---------------------------------------------------------------------------
(* text/block-finder findInnerBlock.                                       *)

NoMatch == [start |-> -1, end |-> -1, depth |-> -1]

FiScanInit == [stack |-> <<>>, bestMatch |-> NoMatch]

\* faulty variant of FiScanStep: the comparison of depths is reversed
FiScanStep_Shallowest(st, ch, i, c, open, close) ==
    IF ch = open
    THEN [st EXCEPT !.stack = Append(st.stack, [index |-> i, depth |-> Len(st.stack)])]
    ELSE IF ch = close /\ Len(st.stack) > 0
    THEN LET openInfo == st.stack[Len(st.stack)]
             popped == SubSeq(st.stack, 1, Len(st.stack) - 1)
         IN IF openInfo.index < c /\ i > c
               /\ (st.bestMatch = NoMatch \/ openInfo.depth < st.bestMatch.depth)
            THEN [stack |-> popped,
                  bestMatch |-> [start |-> openInfo.index, end |-> i,
                                 depth |-> openInfo.depth]]
            ELSE [st EXCEPT !.stack = popped]
    ELSE st

\* one iteration of the for-loop at offset i over character ch
FiScanStep(st, ch, i, c, open, close) ==
    IF ch = open
    THEN [st EXCEPT !.stack = Append(st.stack, [index |-> i, depth |-> Len(st.stack)])]
    ELSE IF ch = close /\ Len(st.stack) > 0
    THEN LET openInfo == st.stack[Len(st.stack)]
             popped == SubSeq(st.stack, 1, Len(st.stack) - 1)
         IN IF openInfo.index < c /\ i > c
               /\ (st.bestMatch = NoMatch \/ openInfo.depth > st.bestMatch.depth)
            THEN [stack |-> popped,
                  bestMatch |-> [start |-> openInfo.index, end |-> i,
                                 depth |-> openInfo.depth]]
            ELSE [st EXCEPT !.stack = popped]
    ELSE st

RECURSIVE FiScan(_, _, _, _, _)
FiScan(t, n, c, open, close) ==
    IF n = 0 THEN FiScanInit
    ELSE FiScanStep(FiScan(t, n - 1, c, open, close), t[n], n - 1, c, open, close)

\* faulty variant of findInnerBlock: the slice starts at the open bracket
findInnerBlock_WithOpen(t, c, bracketType) ==
    LET v == BracketsLookup(bracketType)
    IN IF v.tag = "undefined" THEN Outcome("null", NoInfo, FALSE)
       ELSE LET st == FiScan(t, Len(t), c, v.open, v.close)
            IN IF st.bestMatch # NoMatch
               THEN Outcome("returned",
                            BlockInfo(Slice(t, st.bestMatch.start, st.bestMatch.end),
                                      <<PositionAt(t, st.bestMatch.start),
                                        PositionAt(t, st.bestMatch.end)>>),
                            FALSE)
               ELSE Outcome("null", NoInfo, FALSE)

\* findInnerBlock(editor, bracketType): null for an unknown type or no match
findInnerBlock(t, c, bracketType) ==
    LET v == BracketsLookup(bracketType)
    IN IF v.tag = "undefined" THEN Outcome("null", NoInfo, FALSE)
       ELSE LET st == FiScan(t, Len(t), c, v.open, v.close)
            IN IF st.bestMatch # NoMatch
               THEN Outcome("returned",
                            BlockInfo(Slice(t, st.bestMatch.start + 1, st.bestMatch.end),
                                      <<PositionAt(t, st.bestMatch.start),
                                        PositionAt(t, st.bestMatch.end)>>),
                            FALSE)
               ELSE Outcome("null", NoInfo, FALSE)

---------------------------------------------------------------------------
(* The block commands: state and operations.                               *)

\* characters of the exhaustively enumerated documents
TextAlphabet == {"(", ")", " ", "\n", "a"}

Str_foo_bar_baz ==
    <<"(", "f", "o", "o", " ", "(", "b", "a", "r", ")", " ", "b", "a", "z", ")">>

\* longer documents: nesting, a second bracket kind, indented lines
ExampleTexts ==
    { Str_foo_bar_baz,
      <<"(", "(", "a", ")", ")">>,
      <<"(", "(", "a", ")", "(", "a", ")", ")">>,
      <<")", "(", "(", "a", ")", "a", ")">>,
      <<"[", "(", "a", ")", "]">>,
      <<"[", "a", "[", "a", "]", "(", "]">>,
      <<" ", "a", " ", "\n", " ", "(", "\n", "a", ")", " ">> }

\* bracket skeletons, long enough for pairs nested around the cursor
NestAlphabet == {"(", ")"}

Texts ==
    SeqsUpTo(TextAlphabet, MaxLen) \cup SeqsUpTo(NestAlphabet, MaxNestLen)
        \cup ExampleTexts

\* values of the setting sapf.codeBlockBrackets; "angle" is not a kind
ConfigValues == {"round", "square", "angle"}

Idle == [op |-> "none", status |-> "idle", text |-> <<>>, range |-> <<>>]

Result(op, out) ==
    [op |-> op, status |-> out.status, text |-> out.text, range |-> out.range]

LocInit ==
    /\ text \in Texts
    /\ cursor \in 0..Len(text)
    /\ anchor \in {k \in 0..Len(text) : k - cursor <= MaxSel /\ cursor - k <= MaxSel}
    /\ bracketKind \in ConfigValues
    /\ result = Idle
    /\ warning = FALSE
    /\ sent = <<>>

\* createEvalCommand(resolver): resolve the block, flash it, send its text;
\* an exception of the resolver leaves the command before anything is sent
EvalWith(op, out) ==
    /\ result' = Result(op, out)
    /\ warning' = out.warned
    /\ sent' = IF out.status = "returned" THEN <<out.text>> ELSE <<>>
    /\ UNCHANGED <<text, cursor, anchor, bracketKind>>

\* sapf.evalBlock of the modular extension
EvalBlock ==
    EvalWith("getBlockOrLine", getBlockOrLine(text, cursor, anchor, bracketKind))

\* sapf.evalBlock of the monolithic extension
EvalBlockMonolithic ==
    EvalWith("getBlockOrLineMonolithic",
             getBlockOrLineMonolithic(text, cursor, anchor, bracketKind))

\* sapf.evalBlock of src/extension.ts
EvalBlockExtension ==
    EvalWith("getBlockOrLineExtension",
             getBlockOrLineExtension(text, cursor, anchor, bracketKind))

\* a call of findInnerBlock(editor, bracketType) with the configured kind
CallFindInnerBlock ==
    /\ result' = Result("findInnerBlock", findInnerBlock(text, cursor, bracketKind))
    /\ warning' = FALSE
    /\ sent' = <<>>
    /\ UNCHANGED <<text, cursor, anchor, bracketKind>>

\* JavaScript's null and undefined: a value that is no string
Null == <<"null">>

\* no help text is being parsed and no keywords are loaded
LangIdle ==
    /\ output = <<>>
    /\ lines = <<>>
    /\ parsePc = "idle"
    /\ lineIdx = 0
    /\ catalog = <<>>
    /\ currentCategory = Null
    /\ inFunctionSection = FALSE
    /\ languageData = [given |-> FALSE, data |-> <<>>]
    /\ keywords = <<>>

\* no language command has been set up
CmdIdle ==
    /\ thisKeywords = <<>>
    /\ languageProviders = <<>>
    /\ registered = <<>>
    /\ subscriptions = <<>>
    /\ localFile = [exists |-> FALSE, data |-> <<>>]
    /\ regen = <<>>
    /\ removes = 0
    /\ shown = <<>>
    /\ maps = <<>>
    /\ thisMap = 0
    /\ reloading = <<>>
    /\ request = <<>>

\* no REPL manager has been constructed
ReplIdle ==
    /\ terminal = 0
    /\ terminals = <<>>
    /\ replShown = <<>>
    /\ replCall = <<>>

FmtIdle ==
    /\ doc = <<>>
    /\ fmtPc = "idle"
    /\ fmtLines = <<>>
    /\ fmtIdx = 0
    /\ indentLevel = 0
    /\ formatted = <<>>
    /\ indents = <<>>
    /\ fmtRuns = 0
    /\ message = <<>>

InitLocate == LocInit /\ FmtIdle /\ LangIdle /\ CmdIdle /\ ReplIdle

NextLocate ==
    \/ EvalBlock /\ UNCHANGED <<fmtVars, langVars, cmdVars, replVars>>
    \/ EvalBlockMonolithic /\ UNCHANGED <<fmtVars, langVars, cmdVars, replVars>>
    \/ EvalBlockExtension /\ UNCHANGED <<fmtVars, langVars, cmdVars, replVars>>
    \/ CallFindInnerBlock /\ UNCHANGED <<fmtVars, langVars, cmdVars, replVars>>

SpecLocate == InitLocate /\ [][NextLocate]_vars

---------------------------------------------------------------------------
(* Reference notions the block claims are stated with.  They are defined   *)
(* on the text alone, without the stack scan.                              *)

\* occurrences of ch at the offsets lo .. hi-1 of t
CountIn(t, lo, hi, ch) == Cardinality({k \in (lo + 1)..hi : t[k] = ch})

\* offsets lo .. hi-1 hold a balanced bracket string
BalancedSeg(t, lo, hi, open, close) ==
    /\ \A m \in lo..hi : CountIn(t, lo, m, close) <= CountIn(t, lo, m, open)
    /\ CountIn(t, lo, hi, close) = CountIn(t, lo, hi, open)

\* the open bracket at offset o and the close bracket at offset c match
Matched(t, o, c, open, close) ==
    /\ o < c
    /\ t[o + 1] = open
    /\ t[c + 1] = close
    /\ BalancedSeg(t, o + 1, c, open, close)

MatchedPairs(t, open, close) ==
    {p \in (0..(Len(t) - 1)) \X (0..(Len(t) - 1)) : Matched(t, p[1], p[2], open, close)}

\* the matched pairs that strictly contain offset cur
Candidates(t, cur, open, close) ==
    {p \in MatchedPairs(t, open, close) : p[1] < cur /\ cur < p[2]}

\* nesting depth of the open bracket at offset o: the open brackets before it
\* that are not closed before it
DepthOf(t, o, open, close) ==
    Cardinality({q \in 0..(o - 1) :
        /\ t[q + 1] = open
        /\ ~ \E c \in (q + 1)..(o - 1) : Matched(t, q, c, open, close)})

\* the pair the modular getBlockOrLine scans with: the configured kind's, or
\* the default kind's when the configured value is no kind
EffPair(kind) == IF kind \in DOMAIN brackets THEN brackets[kind] ELSE brackets["round"]

NoSelection == anchor = cursor

Cands == Candidates(text, cursor, EffPair(bracketKind)[1], EffPair(bracketKind)[2])

\* the result is the bracket block of pair p: its inner text, and a range
\* from the open bracket's offset to the close bracket's offset
IsBlockOf(r, p) ==
    /\ r.status = "returned"
    /\ r.text = Slice(text, p[1] + 1, p[2])
    /\ Len(r.range) = 2
    /\ r.range[1].line <= LineOf(text, Len(text))
    /\ r.range[2].line <= LineOf(text, Len(text))
    /\ OffsetAt(text, r.range[1]) = p[1]
    /\ OffsetAt(text, r.range[2]) = p[2]

Str_foo_bar_baz_inner ==
    <<"f", "o", "o", " ", "(", "b", "a", "r", ")", " ", "b", "a", "z">>

\* the cursor offsets strictly inside "(bar)" of "(foo (bar) baz)"
InsideBar == text = Str_foo_bar_baz /\ cursor \in 6..8

---------------------------------------------------------------------------
(* Claims about the block locators, under SpecLocate.                      *)

C3_SmallestEnclosingBlock ==
    (result.op = "getBlockOrLine" /\ NoSelection) =>
        IF Cands # {}
        THEN \E p \in Cands :
                 /\ \A q \in Cands : q[1] <= p[1]
                 /\ IsBlockOf(result, p)
        ELSE \A p \in MatchedPairs(text, EffPair(bracketKind)[1], EffPair(bracketKind)[2]) :
                 ~ IsBlockOf(result, p)

\* the candidates of findInnerBlock called with the configured kind
FiCands ==
    IF bracketKind \in DOMAIN brackets
    THEN Candidates(text, cursor, brackets[bracketKind][1], brackets[bracketKind][2])
    ELSE {}

FiDepth(p) == DepthOf(text, p[1], EffPair(bracketKind)[1], EffPair(bracketKind)[2])

CandidateDepthsDiffer ==
    \A p, q \in FiCands : p # q => FiDepth(p) # FiDepth(q)

RoundBalanced == BalancedSeg(text, 0, Len(text), "(", ")")

RoundCands == Candidates(text, cursor, "(", ")")

\* p encloses no other pair around the cursor
InnermostAround(p) == ~ \E q \in RoundCands : q # p /\ p[1] < q[1] /\ q[2] < p[2]

\* C5: in a text with balanced round brackets, for a cursor strictly inside a
\* pair that encloses no other pair around the cursor, findInnerBlock with
\* 'round' returns the characters strictly between the pair's brackets, with a
\* range from the open bracket's offset to the close bracket's offset.
C5_BlockContainment ==
    (result.op = "findInnerBlock" /\ bracketKind = "round" /\ RoundBalanced) =>
        \A p \in RoundCands : InnermostAround(p) => IsBlockOf(result, p)

C5_Witness ==
    /\ result.op = "findInnerBlock"
    /\ bracketKind = "round"
    /\ RoundBalanced
    /\ Cardinality(RoundCands) >= 2
    /\ \E p \in RoundCands : InnermostAround(p) /\ IsBlockOf(result, p)

\* C6: neither locator selects a matched pair whose open offset or whose close
\* offset equals the cursor offset, nor an empty pair.
C6_StrictContainment ==
    (result.op = "findInnerBlock" \/ (result.op = "getBlockOrLine" /\ NoSelection)) =>
        \A p \in MatchedPairs(text, EffPair(bracketKind)[1], EffPair(bracketKind)[2]) :
            (cursor = p[1] \/ cursor = p[2] \/ p[2] = p[1] + 1) => ~ IsBlockOf(result, p)

C6_Witness ==
    /\ result.op = "getBlockOrLine"
    /\ NoSelection
    /\ bracketKind = "round"
    /\ result.status = "returned"
    /\ Cands = {}
    /\ \E p \in MatchedPairs(text, "(", ")") : p[1] + 1 < p[2] /\ cursor = p[2]

\* the line that holds the cursor, from the text alone
CurLineLo ==
    CHOOSE lo \in 0..cursor :
        /\ lo = 0 \/ text[lo] = "\n"
        /\ \A k \in (lo + 1)..cursor : text[k] # "\n"

CurLineHi ==
    CHOOSE hi \in cursor..Len(text) :
        /\ hi = Len(text) \/ text[hi + 1] = "\n"
        /\ \A k \in (cursor + 1)..hi : text[k] # "\n"

CurLine == Slice(text, CurLineLo, CurLineHi)

\* r is s without its leading and trailing white space
IsTrimOf(r, s) ==
    \E i \in 1..(Len(s) + 1), j \in 0..Len(s) :
        /\ r = SubSeq(s, i, j)
        /\ \A k \in 1..(i - 1) : IsWhite(s[k])
        /\ \A k \in (j + 1)..Len(s) : IsWhite(s[k])
        /\ r # <<>> => ~ IsWhite(r[1]) /\ ~ IsWhite(r[Len(r)])

\* C7: when no pair strictly contains the cursor, getBlockOrLine returns the
\* non-empty selection if there is one, otherwise the cursor's line trimmed
\* with that line's range; the empty document yields the empty string.
C7_Fallback ==
    (result.op = "getBlockOrLine" /\ Cands = {}) =>
        /\ result.status = "returned"
        /\ IF ~ NoSelection
           THEN /\ result.text = Slice(text, Min(cursor, anchor), Max(cursor, anchor))
                /\ OffsetAt(text, result.range[1]) = Min(cursor, anchor)
                /\ OffsetAt(text, result.range[2]) = Max(cursor, anchor)
           ELSE /\ IsTrimOf(result.text, CurLine)
                /\ result.range =
                       <<[line |-> LineOf(text, cursor), character |-> 0],
                         [line |-> LineOf(text, cursor), character |-> Len(CurLine)]>>
        /\ text = <<>> => result.text = <<>>

C7_Witness ==
    /\ result.op = "getBlockOrLine"
    /\ NoSelection
    /\ Cands = {}
    /\ LineOf(text, cursor) = 1
    /\ result.text # CurLine
    /\ result.text # <<>>

\* C8: the evaluate-block command sends the bracket block enclosing the cursor
\* whenever there is one, and the selection or the line only when there is none.
C8_BlockWheneverEnclosed ==
    result.op = "getBlockOrLine" =>
        IF Cands # {}
        THEN \E p \in Cands : sent = <<Slice(text, p[1] + 1, p[2])>>
        ELSE sent = <<result.text>>

\* C9: for a configured value that is no bracket kind, every getBlockOrLine
\* returns without throwing, after a warning, what the scan with the round
\* pair gives.
C9_UnknownKindFailsClosed ==
    (/\ result.op \in {"getBlockOrLine", "getBlockOrLineMonolithic", "getBlockOrLineExtension"}
     /\ NoSelection
     /\ bracketKind \notin DOMAIN brackets) =>
        /\ result.status = "returned"
        /\ warning = TRUE
        /\ RoundCands # {} => \E p \in RoundCands : IsBlockOf(result, p)

\* what C9 states holds of getBlockOrLine of text/block-finder and of
\* src/extension.ts
C9_ModularFailsClosed ==
    (/\ result.op \in {"getBlockOrLine", "getBlockOrLineExtension"}
     /\ NoSelection
     /\ bracketKind \notin DOMAIN brackets) =>
        /\ result.status = "returned"
        /\ warning = TRUE
        /\ RoundCands # {} => \E p \in RoundCands : IsBlockOf(result, p)

---------------------------------------------------------------------------
(* text/formatter formatSapfCode.                                          *)

\* config/constants indentSize
indentSize == 2

OpeningBrackets == {"(", "[", "{"}

\* faulty variant of ClosingBrackets: the round bracket only
ClosingBrackets_Round == {")"}

ClosingBrackets == {")", "]", "}"}

\* faulty variant of CollapseSpaces: every white space character becomes a
\* space, runs are not merged
RECURSIVE CollapseSpaces_PerCharacter(_)
CollapseSpaces_PerCharacter(s) ==
    IF s = <<>> THEN <<>>
    ELSE IF IsWhite(Head(s)) THEN <<" ">> \o CollapseSpaces_PerCharacter(Tail(s))
    ELSE <<Head(s)>> \o CollapseSpaces_PerCharacter(Tail(s))

\* trimmedLine.replace(/\s+/g, ' '): every run of white space becomes one space
RECURSIVE CollapseSpaces(_)
CollapseSpaces(s) ==
    IF s = <<>> THEN <<>>
    ELSE IF IsWhite(Head(s)) THEN <<" ">> \o CollapseSpaces(TrimStart(Tail(s)))
    ELSE <<Head(s)>> \o CollapseSpaces(Tail(s))

\* faulty variant of StartsWithComment: no line is taken for a comment
StartsWithComment_Never(s) == FALSE

\* cleanedLine.startsWith(';;')
StartsWithComment(s) == Len(s) >= 2 /\ s[1] = ";" /\ s[2] = ";"

\* the brackets of a line, counted by the inner for-loop
CountOf(s, set) == Cardinality({k \in 1..Len(s) : s[k] \in set})

\* faulty variant of ProcessLine: indentLevel is not clamped at 0
ProcessLine_NoClamp(level, line) ==
    LET trimmedLine == Trim(line)
        cleanedLine == CollapseSpaces(trimmedLine)
    IN IF trimmedLine = <<>>
       THEN [kind |-> "empty", out |-> <<>>, indent |-> 0, level |-> level]
       ELSE IF StartsWithComment(cleanedLine)
       THEN [kind |-> "comment",
             out |-> Repeat(" ", level * indentSize) \o cleanedLine,
             indent |-> level * indentSize, level |-> level]
       ELSE LET lineIndent == IF cleanedLine[1] \in ClosingBrackets
                              THEN Max(0, level - 1) ELSE level
                netBrackets == CountOf(cleanedLine, OpeningBrackets)
                                   - CountOf(cleanedLine, ClosingBrackets)
            IN [kind |-> "code",
                out |-> Repeat(" ", lineIndent * indentSize) \o cleanedLine,
                indent |-> lineIndent * indentSize,
                level |-> level + netBrackets]

\* faulty variant of ProcessLine: the indent is put before the line as read,
\* not before the cleaned line
ProcessLine_RawLine(level, line) ==
    LET trimmedLine == Trim(line)
        cleanedLine == CollapseSpaces(trimmedLine)
    IN IF trimmedLine = <<>>
       THEN [kind |-> "empty", out |-> <<>>, indent |-> 0, level |-> level]
       ELSE IF StartsWithComment(cleanedLine)
       THEN [kind |-> "comment",
             out |-> Repeat(" ", level * indentSize) \o cleanedLine,
             indent |-> level * indentSize, level |-> level]
       ELSE LET lineIndent == IF cleanedLine[1] \in ClosingBrackets
                              THEN Max(0, level - 1) ELSE level
                netBrackets == CountOf(cleanedLine, OpeningBrackets)
                                   - CountOf(cleanedLine, ClosingBrackets)
            IN [kind |-> "code",
                out |-> Repeat(" ", lineIndent * indentSize) \o line,
                indent |-> lineIndent * indentSize,
                level |-> Max(0, level + netBrackets)]

\* one iteration of the for-loop over the lines: the line pushed to formatted,
\* the count given to ' '.repeat (0 when no indent is made), the new indentLevel
ProcessLine(level, line) ==
    LET trimmedLine == Trim(line)
        cleanedLine == CollapseSpaces(trimmedLine)
    IN IF trimmedLine = <<>>
       THEN [kind |-> "empty", out |-> <<>>, indent |-> 0, level |-> level]
       ELSE IF StartsWithComment(cleanedLine)
       THEN [kind |-> "comment",
             out |-> Repeat(" ", level * indentSize) \o cleanedLine,
             indent |-> level * indentSize, level |-> level]
       ELSE LET lineIndent == IF cleanedLine[1] \in ClosingBrackets
                              THEN Max(0, level - 1) ELSE level
                netBrackets == CountOf(cleanedLine, OpeningBrackets)
                                   - CountOf(cleanedLine, ClosingBrackets)
            IN [kind |-> "code",
                out |-> Repeat(" ", lineIndent * indentSize) \o cleanedLine,
                indent |-> lineIndent * indentSize,
                level |-> Max(0, level + netBrackets)]

\* the lines pushed to formatted for the lines ls, starting at indentLevel level
RECURSIVE FormatLines(_, _)
FormatLines(ls, level) ==
    IF ls = <<>> THEN <<>>
    ELSE LET r == ProcessLine(level, Head(ls))
         IN <<r.out>> \o FormatLines(Tail(ls), r.level)

\* formatSapfCode(code)
formatSapfCode(code) == Join(FormatLines(Split(code), 0))

---------------------------------------------------------------------------
(* The format command lintSapfDocument: state and operations.              *)

\* characters of the exhaustively enumerated documents
FmtAlphabet == {"(", ")", "]", " ", "\n", ";", "a"}

\* longer documents: the other bracket kinds, tabs, comments inside blocks
ExampleDocs ==
    { <<"(", "\n", ";", ";", ")", "\n", "a", "\n", ")">>,
      <<";", ";", "(", "\n", ")", "\n", "a">>,
      <<"[", "{", "\n", "a", "\t", "\t", "a", "\n", "}", "]", "\n", "a">>,
      <<"(", "(", "\n", ")", "a", "(", "\n", " ", "]", "\n", "}", "}", "\n", "a">>,
      <<" ", ";", ";", " ", "[", "\n", "\t", "a", " ", " ", "(", "\n", ")">>,
      <<"(", "\n", " ", "\t", "\n", "a", " ", "\t", "a", " ", "\n", ")">> }

FmtDocs == SeqsUpTo(FmtAlphabet, MaxFmtLen) \cup ExampleDocs

FmtInit ==
    /\ doc \in FmtDocs
    /\ fmtPc = "idle"
    /\ fmtLines = <<>>
    /\ fmtIdx = 0
    /\ indentLevel = 0
    /\ formatted = <<>>
    /\ indents = <<>>
    /\ fmtRuns = 0
    /\ message = <<>>

\* the line the for-loop is about to process
CurrentLine == fmtLines[fmtIdx + 1]

\* lintSapfDocument reads the document and enters formatSapfCode
LintStart ==
    /\ fmtPc = "idle"
    /\ fmtRuns < MaxRuns
    /\ fmtLines' = Split(doc)
    /\ fmtIdx' = 0
    /\ indentLevel' = 0
    /\ formatted' = <<>>
    /\ indents' = <<>>
    /\ fmtPc' = "loop"
    /\ UNCHANGED <<doc, fmtRuns, message>>

\* one iteration of the loop over a line of kind k
FormatLine(k) ==
    /\ fmtPc = "loop"
    /\ fmtIdx < Len(fmtLines)
    /\ LET r == ProcessLine(indentLevel, CurrentLine)
       IN /\ r.kind = k
          /\ formatted' = Append(formatted, r.out)
          /\ indents' = Append(indents, r.indent)
          /\ indentLevel' = r.level
    /\ fmtIdx' = fmtIdx + 1
    /\ UNCHANGED <<doc, fmtPc, fmtLines, fmtRuns, message>>

\* if (trimmedLine === '') { formatted.push(''); continue; }
FormatEmptyLine == FormatLine("empty")

\* if (cleanedLine.startsWith(';;')) { ...; continue; }
FormatCommentLine == FormatLine("comment")

\* the rest of the loop body
FormatCodeLine == FormatLine("code")

\* formatSapfCode returns the text the document already has
LintAlreadyFormatted ==
    /\ fmtPc = "loop"
    /\ fmtIdx = Len(fmtLines)
    /\ doc = Join(formatted)
    /\ message' = Append(message, "already")
    /\ fmtRuns' = fmtRuns + 1
    /\ fmtPc' = "idle"
    /\ UNCHANGED <<doc, fmtLines, fmtIdx, indentLevel, formatted, indents>>

\* formatSapfCode returns another text: editor.edit is called
LintEdit ==
    /\ fmtPc = "loop"
    /\ fmtIdx = Len(fmtLines)
    /\ doc # Join(formatted)
    /\ fmtPc' = "edit"
    /\ UNCHANGED <<doc, fmtLines, fmtIdx, indentLevel, formatted, indents, fmtRuns, message>>

\* the edit is applied: .then(success) with success true
EditApplied ==
    /\ fmtPc = "edit"
    /\ doc' = Join(formatted)
    /\ message' = Append(message, "formatted")
    /\ fmtRuns' = fmtRuns + 1
    /\ fmtPc' = "idle"
    /\ UNCHANGED <<fmtLines, fmtIdx, indentLevel, formatted, indents>>

\* the edit is not applied: .then(success) with success false
EditRejected ==
    /\ fmtPc = "edit"
    /\ message' = Append(message, "failed")
    /\ fmtRuns' = fmtRuns + 1
    /\ fmtPc' = "idle"
    /\ UNCHANGED <<doc, fmtLines, fmtIdx, indentLevel, formatted, indents>>

LocIdle ==
    /\ text = <<>>
    /\ cursor = 0
    /\ anchor = 0
    /\ bracketKind = defaultBracketType
    /\ result = Idle
    /\ warning = FALSE
    /\ sent = <<>>

InitFormat == FmtInit /\ LocIdle /\ LangIdle /\ CmdIdle /\ ReplIdle

NextFormat ==
    \/ LintStart /\ UNCHANGED <<locVars, langVars, cmdVars, replVars>>
    \/ FormatEmptyLine /\ UNCHANGED <<locVars, langVars, cmdVars, replVars>>
    \/ FormatCommentLine /\ UNCHANGED <<locVars, langVars, cmdVars, replVars>>
    \/ FormatCodeLine /\ UNCHANGED <<locVars, langVars, cmdVars, replVars>>
    \/ LintAlreadyFormatted /\ UNCHANGED <<locVars, langVars, cmdVars, replVars>>
    \/ LintEdit /\ UNCHANGED <<locVars, langVars, cmdVars, replVars>>
    \/ EditApplied /\ UNCHANGED <<locVars, langVars, cmdVars, replVars>>
    \/ EditRejected /\ UNCHANGED <<locVars, langVars, cmdVars, replVars>>

SpecFormat == InitFormat /\ [][NextFormat]_vars

---------------------------------------------------------------------------
(* Claims about the formatter, under SpecFormat.                           *)

\* C1: formatSapfCode(formatSapfCode(t)) = formatSapfCode(t) for every text t;
\* a format command run on a document that a format command has formatted (or
\* found formatted) applies no edit and reports that the code is already
\* formatted.
C1_Idempotent ==
    /\ formatSapfCode(formatSapfCode(doc)) = formatSapfCode(doc)
    /\ \A k \in 1..(Len(message) - 1) :
           message[k] \in {"formatted", "already"} => message[k + 1] = "already"
    /\ (fmtPc = "edit" /\ message # <<>>) => message[Len(message)] = "failed"

C1_Witness ==
    /\ Len(message) = 2
    /\ message[1] = "formatted"
    /\ message[2] = "already"
    /\ Len(fmtLines) >= 2
    /\ \E k \in 1..Len(indents) : indents[k] > 0

\* brackets opened minus brackets closed in a line
NetBrackets(line) == CountOf(line, OpeningBrackets) - CountOf(line, ClosingBrackets)

\* the level the claimed rule gives after the first k lines: every line adds
\* its opens minus its closes, clamped at 0
RECURSIVE LevelByCount(_, _)
LevelByCount(ls, k) ==
    IF k = 0 THEN 0
    ELSE Max(0, LevelByCount(ls, k - 1) + NetBrackets(ls[k]))

\* a line whose trimmed text starts with ";;"
IsCommentLine(line) == StartsWithComment(Trim(line))

\* the same rule with comment lines leaving the level unchanged
RECURSIVE LevelSkippingComments(_, _)
LevelSkippingComments(ls, k) ==
    IF k = 0 THEN 0
    ELSE IF IsCommentLine(ls[k]) THEN LevelSkippingComments(ls, k - 1)
    ELSE Max(0, LevelSkippingComments(ls, k - 1) + NetBrackets(ls[k]))

NonNegativeIndent ==
    /\ indentLevel >= 0
    /\ \A k \in 1..Len(indents) : indents[k] >= 0

\* C10 as stated: after every processed line indentLevel equals
\* max(0, previous indentLevel + opens - closes) of that line; indentLevel and
\* the number of spaces before every emitted line are never negative.
C10_LevelAfterEveryLine ==
    /\ fmtPc = "loop" => indentLevel = LevelByCount(fmtLines, fmtIdx)
    /\ NonNegativeIndent

\* C10 amended: the rule holds for every processed line that is not a comment
\* line; a comment line leaves indentLevel unchanged; indentLevel and the
\* number of spaces before every emitted line are never negative.
C10_LevelAfterEveryCodeLine ==
    /\ fmtPc = "loop" => indentLevel = LevelSkippingComments(fmtLines, fmtIdx)
    /\ NonNegativeIndent

\* a line with more closes than the level has just been processed, after a
\* comment line that holds a bracket
C10_Witness ==
    /\ fmtPc = "loop"
    /\ fmtIdx >= 2
    /\ indentLevel = 0
    /\ ~ IsCommentLine(fmtLines[fmtIdx])
    /\ LevelSkippingComments(fmtLines, fmtIdx - 1) + NetBrackets(fmtLines[fmtIdx]) < 0
    /\ \E k \in 1..(fmtIdx - 1) : IsCommentLine(fmtLines[k]) /\ NetBrackets(fmtLines[k]) # 0

---------------------------------------------------------------------------
(* The formatter changes white space only.                                 *)

\* a line of white space only (the empty line included)
IsBlank(line) == \A k \in 1..Len(line) : IsWhite(line[k])

\* the maximal runs of non-white characters of s, in order
RECURSIVE Words(_)
Words(s) ==
    IF IsBlank(s) THEN <<>>
    ELSE LET b == CHOOSE j \in 1..Len(s) :
                      ~ IsWhite(s[j]) /\ \A m \in 1..(j - 1) : IsWhite(s[m])
             e == CHOOSE j \in b..Len(s) :
                      /\ \A m \in b..j : ~ IsWhite(s[m])
                      /\ (j = Len(s) \/ IsWhite(s[j + 1]))
         IN <<SubSeq(s, b, e)>> \o Words(SubSeq(s, e + 1, Len(s)))

\* the words separated by single spaces
RECURSIVE JoinWords(_)
JoinWords(ws) ==
    IF ws = <<>> THEN <<>>
    ELSE IF Len(ws) = 1 THEN ws[1]
    ELSE ws[1] \o <<" ">> \o JoinWords(Tail(ws))

\* out is the line trimmed and collapsed, after a multiple of indentSize spaces
IsIndentedClean(out, line) ==
    \E n \in 0..Len(out) :
        out = Repeat(" ", n * indentSize) \o JoinWords(Words(line))

\* every line emitted so far is its input line with white space changed only
C11_LinesKept ==
    /\ fmtPc # "idle" => Len(formatted) = fmtIdx
    /\ Len(Split(formatSapfCode(doc))) = Len(Split(doc))
    /\ \A k \in 1..Len(formatted) :
           IF IsBlank(fmtLines[k]) THEN formatted[k] = <<>>
           ELSE IsIndentedClean(formatted[k], fmtLines[k])

\* the iteration over a blank line pushes '' and leaves indentLevel as it was
C11_BlankStep ==
    (fmtPc = "loop" /\ fmtIdx < Len(fmtLines) /\ fmtIdx' = fmtIdx + 1
         /\ IsBlank(CurrentLine))
        => (indentLevel' = indentLevel /\ formatted' = Append(formatted, <<>>))

\* C11: formatSapfCode changes white space only: the output has as many lines
\* as the input; an empty or white-space-only line becomes an empty line and
\* leaves indentLevel unchanged; every other output line is the input line
\* trimmed, its white space runs collapsed to one space each, after a multiple
\* of indentSize spaces.
C11_WhitespaceOnly == []C11_LinesKept /\ [][C11_BlankStep]_vars

\* a white-space-only line was emptied inside a block, and a line with a run
\* of mixed white space was collapsed and indented
C11_Witness ==
    /\ fmtPc = "loop"
    /\ fmtIdx = Len(fmtLines)
    /\ indentLevel = 0
    /\ \E j \in 1..Len(formatted) :
           fmtLines[j] # <<>> /\ IsBlank(fmtLines[j]) /\ formatted[j] = <<>>
    /\ \E k \in 1..Len(formatted) :
           /\ Len(Words(fmtLines[k])) = 2
           /\ Len(fmtLines[k]) > Len(formatted[k]) - indents[k]
           /\ indents[k] = indentSize

---------------------------------------------------------------------------
(* Strings of the help-text parser and the regular expressions it uses.    *)

LowerLetters ==
    <<"a", "b", "c", "d", "e", "f", "g", "h", "i", "j", "k", "l", "m", "n", "o", "p", "q", "r", "s", "t", "u", "v", "w", "x", "y", "z">>

UpperLetters ==
    <<"A", "B", "C", "D", "E", "F", "G", "H", "I", "J", "K", "L", "M", "N", "O", "P", "Q", "R", "S", "T", "U", "V", "W", "X", "Y", "Z">>

Digits == <<"0", "1", "2", "3", "4", "5", "6", "7", "8", "9">>

\* the set of the characters of a string
CharsOf(s) == {s[k] : k \in 1..Len(s)}

\* the character classes of the patterns: \s, [^\s], \w, [a-z]
InClass(cls, c) ==
    CASE cls = "white" -> IsWhite(c)
      [] cls = "nonwhite" -> ~ IsWhite(c)
      [] cls = "word" ->
             c \in CharsOf(LowerLetters) \cup CharsOf(UpperLetters)
                       \cup CharsOf(Digits) \cup {"_"}
      [] cls = "lower" -> c \in CharsOf(LowerLetters)

\* what . matches: every character but a line terminator
IsDot(c) == c \notin {"\n", "\r"}

AllDot(s) == \A k \in 1..Len(s) : IsDot(s[k])

\* String.prototype.toLowerCase
ToLowerChar(c) ==
    IF c \in CharsOf(UpperLetters)
    THEN LowerLetters[CHOOSE i \in 1..Len(UpperLetters) : UpperLetters[i] = c]
    ELSE c

toLowerCase(s) == [k \in 1..Len(s) |-> ToLowerChar(s[k])]

\* String.prototype.startsWith, endsWith, includes
StartsWith(s, p) == Len(s) >= Len(p) /\ SubSeq(s, 1, Len(p)) = p
EndsWith(s, p) == Len(s) >= Len(p) /\ SubSeq(s, Len(s) - Len(p) + 1, Len(s)) = p
Includes(s, p) == \E i \in 1..(Len(s) - Len(p) + 1) : SubSeq(s, i, i + Len(p) - 1) = p

\* a greedy class+ or class* at index i: the index of the last character of
\* the longest run of characters of the class that starts at i (i - 1 when
\* the run is empty)
RunEnd(s, i, cls) ==
    IF i > Len(s) THEN i - 1
    ELSE CHOOSE j \in (i - 1)..Len(s) :
             /\ \A m \in i..j : InClass(cls, s[m])
             /\ (j = Len(s) \/ ~ InClass(cls, s[j + 1]))

\* \([^)]*\) at index i: the index of the first ")" after a "(" at i, 0 when
\* the pattern does not match there
ParenEnd(s, i) ==
    IF i >= 1 /\ i <= Len(s) /\ s[i] = "(" /\ \E j \in (i + 1)..Len(s) : s[j] = ")"
    THEN CHOOSE j \in (i + 1)..Len(s) :
             s[j] = ")" /\ \A m \in (i + 1)..(j - 1) : s[m] # ")"
    ELSE 0

\* @\w+\s*\([^)]*\) at an "@" at index i, the tag ending at w: 0 when the tag
\* is empty or no parenthesis follows the white space
SpecialSigEnd(s, i, w) ==
    IF w < i + 1 THEN 0 ELSE ParenEnd(s, RunEnd(s, w + 1, "white") + 1)

\* the group (\([^)]*\)|@\w+\s*\([^)]*\)) at index i: the index of its last
\* character, 0 when neither alternative matches there.  Each part is a
\* greedy run that the next part cannot start inside, so the runs are maximal.
SigEnd(s, i) ==
    IF i < 1 \/ i > Len(s) THEN 0
    ELSE IF s[i] = "(" THEN ParenEnd(s, i)
    ELSE IF s[i] = "@" THEN SpecialSigEnd(s, i, RunEnd(s, i + 1, "word"))
    ELSE 0

NoRegexMatch == [matched |-> FALSE, name |-> <<>>, signature |-> <<>>, description |-> <<>>]

Str_banner_open == <<"*", "*", "*", " ">>
Str_banner_close == <<" ", "*", "*", "*">>

\* line.match(/^\*\*\* (.+) \*\*\*$/): the category name in field name
categoryMatch(line) ==
    IF /\ Len(line) >= 9
       /\ StartsWith(line, Str_banner_open)
       /\ EndsWith(line, Str_banner_close)
       /\ AllDot(line)
    THEN [NoRegexMatch EXCEPT !.matched = TRUE,
                              !.name = SubSeq(line, 5, Len(line) - 4)]
    ELSE NoRegexMatch

\* n ends a name that starts at index 2 and a space follows it
IsNameEnd(line, n) == n >= 2 /\ n < Len(line) /\ line[n + 1] = " "

\* ^ ([^\s]+) : the index of the last character of the name of a line that
\* starts with one space, a name and one more space; 0 otherwise
NameEnd(line) ==
    IF /\ Len(line) >= 3
       /\ line[1] = " "
       /\ IsNameEnd(line, RunEnd(line, 2, "nonwhite"))
    THEN RunEnd(line, 2, "nonwhite")
    ELSE 0

\* the match of a line whose name ends at n and whose signature ends at e
FunctionMatchAt(line, n, e) ==
    IF /\ n > 0
       /\ e > 0
       /\ e + 2 <= Len(line)
       /\ line[e + 1] = " "
       /\ AllDot(SubSeq(line, e + 2, Len(line)))
    THEN [matched |-> TRUE,
          name |-> SubSeq(line, 2, n),
          signature |-> SubSeq(line, n + 2, e),
          description |-> SubSeq(line, e + 2, Len(line))]
    ELSE NoRegexMatch

\* line.match(/^ ([^\s]+) (\([^)]*\)|@\w+\s*\([^)]*\)) (.+)$/)
functionMatch(line) ==
    FunctionMatchAt(line, NameEnd(line), SigEnd(line, NameEnd(line) + 2))

\* the match of a signature whose tag ends at w and whose white space ends at sp
SpecialMatchAt(signature, w, sp) ==
    IF w >= 2 /\ sp < Len(signature)
           /\ AllDot(SubSeq(signature, sp + 1, Len(signature)))
    THEN [NoRegexMatch EXCEPT !.matched = TRUE,
                              !.name = SubSeq(signature, 2, w),
                              !.signature = SubSeq(signature, sp + 1, Len(signature))]
    ELSE NoRegexMatch

\* signature.match(/^@(\w+)\s*(.+)$/) for a signature that functionMatch
\* captured: the tag in field name, sigContent in field signature.  After the
\* tag and the white space such a signature goes on with "(", so the greedy
\* choices stand.
specialMatch(signature) ==
    IF signature # <<>> /\ signature[1] = "@"
    THEN SpecialMatchAt(signature, RunEnd(signature, 2, "word"),
                        RunEnd(signature, RunEnd(signature, 2, "word") + 1, "white"))
    ELSE NoRegexMatch

\* line.match(/^\s{6,}/)
StartsWithSixWhite(line) ==
    Len(line) >= 6 /\ \A k \in 1..6 : IsWhite(line[k])

\* the ends of the parts that follow one another from index i: the greedy run
\* of a class, or the parenthesis \([^)]*\) (0 when there is none)
RECURSIVE PartEnds(_, _, _)
PartEnds(s, i, parts) ==
    IF parts = <<>> THEN <<>>
    ELSE IF Head(parts) = "paren"
    THEN <<ParenEnd(s, i)>> \o PartEnds(s, ParenEnd(s, i) + 1, Tail(parts))
    ELSE <<RunEnd(s, i, Head(parts))>>
             \o PartEnds(s, RunEnd(s, i, Head(parts)) + 1, Tail(parts))

\* the match of a line whose parts \s+ [^\s]+ \s+ \(..\) \s+ end at p[1..5]
\* and whose description starts at d
OpMatchAt(line, p, d) ==
    IF /\ p[1] >= 1
       /\ p[2] > p[1]
       /\ p[3] > p[2]
       /\ p[4] > 0
       /\ p[5] > p[4]
       /\ d >= p[4] + 2
       /\ AllDot(SubSeq(line, d, Len(line)))
    THEN [matched |-> TRUE,
          name |-> SubSeq(line, p[1] + 1, p[2]),
          signature |-> SubSeq(line, p[3] + 1, p[4]),
          description |-> SubSeq(line, d, Len(line))]
    ELSE NoRegexMatch

\* the start of (.+) after the last \s+, which ends at w: when only white
\* space follows the signature, \s+ gives its last character back to (.+)
OpDescriptionStart(line, w) == IF w < Len(line) THEN w + 1 ELSE Len(line)

OpParts == <<"white", "nonwhite", "white", "paren", "white">>

\* line.match(/^\s+([^\s]+)\s+(\([^)]*\))\s+(.+)$/)
opMatch(line) ==
    OpMatchAt(line, PartEnds(line, 1, OpParts),
              OpDescriptionStart(line, PartEnds(line, 1, OpParts)[5]))

\* the match of a line whose name ends at n and whose signature ends at e
SigOnlyMatchAt(line, n, e) ==
    IF n > 0 /\ e > 0 /\ \A k \in (e + 1)..Len(line) : IsWhite(line[k])
    THEN [NoRegexMatch EXCEPT !.matched = TRUE,
                              !.name = SubSeq(line, 2, n),
                              !.signature = SubSeq(line, n + 2, e)]
    ELSE NoRegexMatch

\* line.match(/^ ([^\s]+) (\([^)]*\)|@\w+\s*\([^)]*\))\s*$/)
sigOnlyMatch(line) ==
    SigOnlyMatchAt(line, NameEnd(line), SigEnd(line, NameEnd(line) + 2))

Str_dash == <<" ", "-", " ">>

\* the match of a line whose name ends at n
NoSigMatchAt(line, n) ==
    IF /\ n > 0
       /\ Len(line) >= n + 4
       /\ SubSeq(line, n + 1, n + 3) = Str_dash
       /\ AllDot(SubSeq(line, n + 4, Len(line)))
    THEN [NoRegexMatch EXCEPT !.matched = TRUE,
                              !.name = SubSeq(line, 2, n),
                              !.description = SubSeq(line, n + 4, Len(line))]
    ELSE NoRegexMatch

\* line.match(/^ ([^\s]+) - (.+)$/)
noSigMatch(line) == NoSigMatchAt(line, NameEnd(line))

---------------------------------------------------------------------------
(* language/generator parseSapfHelpOutput.                                 *)

\* property names every object literal inherits from Object.prototype
ObjectPrototypeKeys ==
    { <<"c", "o", "n", "s", "t", "r", "u", "c", "t", "o", "r">>, <<"_", "_", "p", "r", "o", "t", "o", "_", "_">>, <<"t", "o", "S", "t", "r", "i", "n", "g">>, <<"v", "a", "l", "u", "e", "O", "f">>, <<"h", "a", "s", "O", "w", "n", "P", "r", "o", "p", "e", "r", "t", "y">>,
      <<"i", "s", "P", "r", "o", "t", "o", "t", "y", "p", "e", "O", "f">>, <<"t", "o", "L", "o", "c", "a", "l", "e", "S", "t", "r", "i", "n", "g">>, <<"p", "r", "o", "p", "e", "r", "t", "y", "I", "s", "E", "n", "u", "m", "e", "r", "a", "b", "l", "e">> }

Str___proto__ == <<"_", "_", "p", "r", "o", "t", "o", "_", "_">>

\* an object literal's own string-keyed properties, in insertion order, as a
\* sequence of [key, value]; keys here are never integer-like
HasOwn(obj, key) == \E k \in 1..Len(obj) : obj[k].key = key

OwnIndex(obj, key) == CHOOSE k \in 1..Len(obj) : obj[k].key = key

GetOwn(obj, key) == obj[OwnIndex(obj, key)].value

\* faulty variant of SetProperty: an assignment always adds an entry
SetProperty_Duplicate(obj, key, value) ==
    IF key = Str___proto__ THEN obj
    ELSE Append(obj, [key |-> key, value |-> value])

\* obj[key] = value on an object literal whose values are strings: the
\* inherited setter of __proto__ takes a string and defines nothing
SetProperty(obj, key, value) ==
    IF key = Str___proto__ THEN obj
    ELSE IF HasOwn(obj, key)
    THEN [obj EXCEPT ![OwnIndex(obj, key)].value = value]
    ELSE Append(obj, [key |-> key, value |-> value])

\* result[currentCategory] ??= { items: {} } on the object res: an own or
\* inherited property that is not nullish is left as it is.  The value kept
\* per category is its items object.
EnsureCategory(res, categoryName) ==
    IF HasOwn(res, categoryName) \/ categoryName \in ObjectPrototypeKeys
    THEN res
    ELSE Append(res, [key |-> categoryName, value |-> <<>>])

ParseState(cat, cur, inSection, threw) ==
    [catalog |-> cat, currentCategory |-> cur, inFunctionSection |-> inSection,
     threw |-> threw]

ParseStateInit == ParseState(<<>>, Null, FALSE, FALSE)

\* result[currentCategory].items[functionName] = value: an inherited
\* property has no items, and setting a property of undefined throws
SetItem(st, functionName, value) ==
    IF HasOwn(st.catalog, st.currentCategory)
    THEN [st EXCEPT !.catalog[OwnIndex(st.catalog, st.currentCategory)].value =
                        SetProperty(GetOwn(st.catalog, st.currentCategory),
                                    functionName, value)]
    ELSE [st EXCEPT !.threw = TRUE]

Str_BUILT_IN_FUNCTIONS == <<"B", "U", "I", "L", "T", " ", "I", "N", " ", "F", "U", "N", "C", "T", "I", "O", "N", "S">>

Str_Argument_Automapping == <<" ", "A", "r", "g", "u", "m", "e", "n", "t", " ", "A", "u", "t", "o", "m", "a", "p", "p", "i", "n", "g">>

\* the description built from the captures m of functionMatch and the match
\* sm of its signature against the special pattern
FullDescriptionOf(m, sm) ==
    IF sm.matched
    THEN <<"@">> \o sm.name \o <<" ">> \o sm.signature \o <<" ">> \o m.description
    ELSE m.signature \o <<" ">> \o m.description

\* let fullDescription of a line functionMatch matched
fullDescription(line) ==
    FullDescriptionOf(functionMatch(line), specialMatch(functionMatch(line).signature))

NoEntry == [kind |-> "ignored", name |-> <<>>, value |-> <<>>]

Entry(kind, name, value) == [kind |-> kind, name |-> name, value |-> value]

\* the if-else chain over the four entry patterns, given the match of each:
\* the pattern that takes the line, the function name and the stored string
EntryOf(line, fm, om, so, ns) ==
    IF fm.matched THEN Entry("function", fm.name, fullDescription(line))
    ELSE IF StartsWithSixWhite(line)
    THEN IF om.matched
         THEN Entry("operator", om.name, om.signature \o <<" ">> \o om.description)
         ELSE NoEntry
    ELSE IF so.matched THEN Entry("sigOnly", so.name, so.signature)
    ELSE IF ns.matched THEN Entry("noSig", ns.name, ns.description)
    ELSE NoEntry

entryMatch(line) ==
    EntryOf(line, functionMatch(line), opMatch(line), sigOnlyMatch(line), noSigMatch(line))

Handled(kind, st) == [kind |-> kind, st |-> st]

\* the assignment made for the entry en, if the line is one
HandleEntry(st, en) ==
    IF en.kind = "ignored" THEN Handled("ignored", st)
    ELSE Handled(en.kind, SetItem(st, en.name, en.value))

\* const [, categoryName] = categoryMatch; currentCategory = categoryName;
\* result[currentCategory] ??= { items: {} }
HandleCategory(st, categoryName) ==
    Handled("category",
            [st EXCEPT !.currentCategory = categoryName,
                       !.catalog = EnsureCategory(st.catalog, categoryName)])

\* the loop body after the marker and function-section tests
HandleListingLine(st, line) ==
    IF categoryMatch(line).matched
    THEN HandleCategory(st, categoryMatch(line).name)
    ELSE IF /\ st.currentCategory # Null
            /\ Trim(line) # <<>>
            /\ ~ StartsWith(line, Str_Argument_Automapping)
    THEN HandleEntry(st, entryMatch(line))
    ELSE Handled("ignored", st)

\* faulty variant of HandleLine: the lines before the marker are not skipped
HandleLine_NoSeeking(st, line) ==
    IF Includes(line, Str_BUILT_IN_FUNCTIONS)
    THEN Handled("marker", [st EXCEPT !.inFunctionSection = TRUE])
    ELSE HandleListingLine(st, line)

\* one iteration of the for-loop over the lines: the branch taken and the
\* state it leaves
HandleLine(st, line) ==
    IF Includes(line, Str_BUILT_IN_FUNCTIONS)
    THEN Handled("marker", [st EXCEPT !.inFunctionSection = TRUE])
    ELSE IF ~ st.inFunctionSection
    THEN Handled("seeking", st)
    ELSE HandleListingLine(st, line)

\* the for-loop over the lines ls from the state st; an exception ends it
RECURSIVE ParseLines(_, _)
ParseLines(ls, st) ==
    IF ls = <<>> \/ st.threw THEN st
    ELSE ParseLines(Tail(ls), HandleLine(st, Head(ls)).st)

\* parseSapfHelpOutput(output): the state at its end; field catalog is the
\* value returned unless threw
parseSapfHelpOutput(out) == ParseLines(Split(out), ParseStateInit)

---------------------------------------------------------------------------
(* language/parser loadKeywords and parseKeywordDescription.               *)

Str_arrow == <<"-", "-", ">">>

\* the groups of a match of languagePattern
PatternMatch(matched, special, signature, description) ==
    [matched |-> matched, special |-> special, signature |-> signature,
     description |-> description]

\* the match when the tag ends at s (s < 2: no tag), the signature would
\* start at p1, has the arrow or not, and the description starts at p3
PatternMatchAt(raw, s, p1, hasSignature, e, p3) ==
    IF AllDot(SubSeq(raw, p3, Len(raw)))
    THEN PatternMatch(TRUE,
                      IF s >= 2 THEN SubSeq(raw, 2, s) ELSE Null,
                      IF hasSignature THEN SubSeq(raw, p1, e) ELSE Null,
                      SubSeq(raw, p3, Len(raw)))
    ELSE PatternMatch(FALSE, Null, Null, Null)

\* (?<signature>\([^)]*?-->\s*[^)]*?\))? at p1: a parenthesis that ends at e
\* and holds the arrow
HasSignature(raw, p1, e) == e > 0 /\ Includes(SubSeq(raw, p1 + 1, e - 1), Str_arrow)

\* \s* after the optional signature
DescriptionStart(raw, p1, hasSignature, e) ==
    RunEnd(raw, IF hasSignature THEN e + 1 ELSE p1, "white") + 1

SignatureAt(raw, s, p1, hasSignature, e) ==
    PatternMatchAt(raw, s, p1, hasSignature, e,
                   DescriptionStart(raw, p1, hasSignature, e))

ParenAt(raw, s, p1, e) == SignatureAt(raw, s, p1, HasSignature(raw, p1, e), e)

\* the rest of the pattern after the optional tag group, which ended at p1 - 1
AfterSpecial(raw, s, p1) == ParenAt(raw, s, p1, ParenEnd(raw, p1))

\* \s* after a tag that ends at s
SpecialEnd(raw, s) == IF s >= 2 THEN RunEnd(raw, s + 1, "white") + 1 ELSE 1

\* the match when the class of the tag is cls
PatternWithTag(raw, s) == AfterSpecial(raw, s, SpecialEnd(raw, s))

\* (?:@(?<special>...)+ at the start: the end of the tag, 0 without "@"
TagEnd(raw, cls) == IF raw # <<>> /\ raw[1] = "@" THEN RunEnd(raw, 2, cls) ELSE 0

\* faulty variant of languagePatternMatch: the tag is \w+ as in the parser
languagePatternMatch_WordTag(raw) == PatternWithTag(raw, TagEnd(raw, "word"))

\* rawDescription.match(languagePattern), with languagePattern
\* /^(?:@(?<special>[a-z]+)\s*)?(?<signature>\([^)]*?-->\s*[^)]*?\))?\s*(?<description>.*)$/
\* Every optional part is greedy and what follows it matches any text without
\* a line terminator, so the first choice of each part decides the match.  An
\* unmatched group is undefined (here Null).
languagePatternMatch(raw) == PatternWithTag(raw, TagEnd(raw, "lower"))

\* KeywordInfo
KeywordInfo(keyword, signature, description, category, special) ==
    [keyword |-> keyword, signature |-> signature, description |-> description,
     category |-> category, special |-> special]

\* the KeywordInfo built from the match (match?.groups?.x ?? ...)
KeywordInfoOf(match, rawDescription, keyword, category) ==
    KeywordInfo(keyword,
                IF match.matched THEN match.signature ELSE Null,
                Trim(IF match.matched THEN match.description ELSE rawDescription),
                category,
                IF match.matched THEN match.special ELSE Null)

parseKeywordDescription(rawDescription, keyword, category) ==
    KeywordInfoOf(languagePatternMatch(rawDescription), rawDescription, keyword, category)

\* faulty variant of MapSet: a key already in the map keeps its first value
MapSet_KeepFirst(map, key, value) ==
    IF HasOwn(map, key) THEN map
    ELSE Append(map, [key |-> key, value |-> value])

\* Map.prototype.set on a map kept as its [key, value] entries in insertion order
MapSet(map, key, value) ==
    IF HasOwn(map, key)
    THEN [map EXCEPT ![OwnIndex(map, key)].value = value]
    ELSE Append(map, [key |-> key, value |-> value])

\* the inner forEach over the items of one category, from the map so far
RECURSIVE LoadItems(_, _, _)
LoadItems(map, category, items) ==
    IF items = <<>> THEN map
    ELSE LoadItems(MapSet(map, toLowerCase(Head(items).key),
                          parseKeywordDescription(Head(items).value,
                                                  Head(items).key, category)),
                   category, Tail(items))

\* the outer forEach over the categories
RECURSIVE LoadCategories(_, _)
LoadCategories(map, data) ==
    IF data = <<>> THEN map
    ELSE LoadCategories(LoadItems(map, Head(data).key, Head(data).value), Tail(data))

\* loadKeywords(languageData) for language data that is given
loadKeywords(data) == LoadCategories(<<>>, data)

---------------------------------------------------------------------------
(* The help-text parser and the keyword loader: state and operations.      *)

\* longest exhaustively enumerated help text, in lines
MaxHelpLines == 3

\* lines of the exhaustively enumerated help texts: the marker, banners (one
\* of them naming an inherited property), a line for each entry pattern, and
\* lines that are no entry
HelpLinePool ==
    { Str_BUILT_IN_FUNCTIONS,
      <<"*", "*", "*", " ", "A", " ", "*", "*", "*">>,
      <<"*", "*", "*", " ", "B", " ", "*", "*", "*">>,
      <<"*", "*", "*", " ", "c", "o", "n", "s", "t", "r", "u", "c", "t", "o", "r", " ", "*", "*", "*">>,
      <<" ", "f", " ", "(", "a", " ", "-", "-", ">", " ", "b", ")", " ", "d">>,
      <<" ", "f", " ", "@", "k", " ", "(", "a", " ", "-", "-", ">", " ", "b", ")", " ", "e">>,
      <<" ", "F", " ", "-", " ", "g">>,
      <<" ", "g", " ", "(", "a", " ", "-", "-", ">", " ", "b", ")">>,
      <<" ", " ", " ", " ", " ", " ", " ", "f", "/", " ", "(", "a", " ", "-", "-", ">", " ", "b", ")", " ", "d">>,
      <<>>,
      <<" ", "A", "r", "g", "u", "m", "e", "n", "t", " ", "A", "u", "t", "o", "m", "a", "p", "p", "i", "n", "g", " ", "l", "e", "g", "e", "n", "d">>,
      <<"f", " ", "(", "a", " ", "-", "-", ">", " ", "b", ")", " ", "d">> }

Str_scenario ==
    <<"B", "U", "I", "L", "T", " ", "I", "N", " ", "F", "U", "N", "C", "T", "I", "O", "N", "S", "\n", "*", "*", "*", " ", "M", "a", "t", "h", " ", "*", "*", "*", "\n", " ", "a", "d", "d", " ", "(", "a", " ", "b", " ", "-", "-", ">", " ", "c", ")", " ", "a", "d", "d", "s", " ", "t", "w", "o", "\n">>

\* longer help texts: a preamble that looks like a listing, recurring
\* banners, tags and signatures of every accepted shape
ExampleOutputs ==
    { Str_scenario,
      <<"s", "a", "p", "f", "\n", "*", "*", "*", " ", "A", " ", "*", "*", "*", "\n", " ", "f", " ", "(", "a", " ", "-", "-", ">", " ", "b", ")", " ", "d", "\n", "=", "=", " ", "B", "U", "I", "L", "T", " ", "I", "N", " ", "F", "U", "N", "C", "T", "I", "O", "N", "S", " ", "=", "=", "\n", " ", "g", " ", "-", " ", "h", "\n", "*", "*", "*", " ", "B", " ", "*", "*", "*", "\n", " ", "g", " ", "-", " ", "h">>,
      <<"s", "a", "p", "f", " ", "h", "e", "l", "p", "\n", "-", "-", "-", " ", "B", "U", "I", "L", "T", " ", "I", "N", " ", "F", "U", "N", "C", "T", "I", "O", "N", "S", " ", "-", "-", "-", "\n", "*", "*", "*", " ", "A", " ", "*", "*", "*", "\n", " ", "f", " ", "(", "a", " ", "-", "-", ">", " ", "b", ")", " ", "d", "\n", "*", "*", "*", " ", "B", " ", "*", "*", "*", "\n", " ", "g", " ", "(", "a", " ", "-", "-", ">", " ", "b", ")", "\n", "*", "*", "*", " ", "A", " ", "*", "*", "*", "\n", " ", "h", " ", "@", "k", " ", "(", "a", " ", "-", "-", ">", " ", "b", ")", " ", "e", "\n", " ", "f", " ", "-", " ", "x">>,
      <<"B", "U", "I", "L", "T", " ", "I", "N", " ", "F", "U", "N", "C", "T", "I", "O", "N", "S", "\n", " ", "g", " ", "-", " ", "h", "\n", "\n", "*", "*", "*", " ", "A", " ", "*", "*", "*", "\n", " ", "A", "r", "g", "u", "m", "e", "n", "t", " ", "A", "u", "t", "o", "m", "a", "p", "p", "i", "n", "g", " ", "l", "e", "g", "e", "n", "d", "\n", " ", " ", "f", " ", "(", "a", " ", "-", "-", ">", " ", "b", ")", " ", "d", "\n", " ", "f", " ", "(", "a", " ", "-", "-", ">", " ", "b", ")", "d", "\n", " ", "g", " ", "-", " ", "h">>,
      <<"B", "U", "I", "L", "T", " ", "I", "N", " ", "F", "U", "N", "C", "T", "I", "O", "N", "S", "\n", "*", "*", "*", " ", "A", " ", "*", "*", "*", "\n", " ", "f", " ", "@", "k", "k", "(", "a", " ", "-", "-", ">", " ", "b", ")", " ", "e", "\n", " ", "g", " ", "@", "K", " ", "(", "a", " ", "-", "-", ">", " ", "b", ")", " ", "e", "\n", " ", "h", " ", "@", "k", " ", "(", "a", " ", "b", ")", " ", "e">>,
      <<"B", "U", "I", "L", "T", " ", "I", "N", " ", "F", "U", "N", "C", "T", "I", "O", "N", "S", "\n", "*", "*", "*", " ", "A", " ", "*", "*", "*", "\n", " ", " ", " ", " ", " ", " ", " ", "f", "\\", "\\", " ", "(", "a", " ", "-", "-", ">", " ", "b", ")", " ", " ", "\n", " ", " ", " ", " ", " ", " ", " ", "g", " ", "(", "a", ")", "\n", " ", " ", " ", " ", " ", " ", " ", "h", " ", "(", "a", ")", "\t", "d", " ", "e", " ", "\n", " ", "_", "_", "p", "r", "o", "t", "o", "_", "_", " ", "-", " ", "x">>,
      <<"B", "U", "I", "L", "T", " ", "I", "N", " ", "F", "U", "N", "C", "T", "I", "O", "N", "S", "\n", "*", "*", "*", " ", "A", " ", "*", "*", "*", "\n", " ", "f", " ", "(", "a", " ", "-", "-", ">", " ", "b", ")", " ", "d", "\n", "*", "*", "*", " ", "c", "o", "n", "s", "t", "r", "u", "c", "t", "o", "r", " ", "*", "*", "*", "\n", "\n", " ", "g", " ", "-", " ", "h", "\n", "*", "*", "*", " ", "B", " ", "*", "*", "*", "\n", " ", "g", " ", "-", " ", "h">> }

Str_banner_A == <<"*", "*", "*", " ", "A", " ", "*", "*", "*">>

\* every text of at most MaxHelpLines lines of the pool, every such text put
\* after the marker line and a first banner, and the longer examples
HelpTexts ==
    {Join(ls) : ls \in SeqsUpTo(HelpLinePool, MaxHelpLines)}
        \cup {Join(<<Str_BUILT_IN_FUNCTIONS, Str_banner_A>> \o ls) :
                  ls \in SeqsUpTo(HelpLinePool, MaxHelpLines)}
        \cup ExampleOutputs

\* raw descriptions a language file can hold: a tag part, a signature part
\* and a rest, each of several shapes; none has a line terminator, as every
\* description the parser stores is a piece of one line
TagParts == { <<>>, <<"@", "k", " ">>, <<"@", "k", "k">>, <<"@", "K", " ">>, <<"@", " ">>, <<"@", "k", "2", " ">>, <<"@", "k", "\t", " ">>, <<" ", "@", "k", " ">> }

SigParts ==
    { <<>>, <<"(", "a", " ", "b", " ", "-", "-", ">", " ", "c", ")">>, <<"(", "a", " ", "-", "-", ">", " ", "b", ")">>, <<"(", "-", "-", ">", ")">>, <<"(", "a", " ", "b", ")">>, <<"(", "a", " ", "-", "-", ">", " ", "b">>, <<"(", "a", " ", "-", ">", " ", "b", ")">> }

RestParts ==
    { <<>>, <<" ", "d", "o", "e", "s", " ", "X">>, <<" ", "p", "l", "a", "i", "n", " ", "d", "e", "s", "c">>, <<"j", "u", "s", "t", " ", "t", "e", "x", "t">>, <<" ", " ", "x", " ", " ">>, <<" ", "(", "c", " ", "-", "-", ">", " ", "d", ")", " ", "y">>, <<" ", "@", "k", " ", "z">> }

RawDescriptions ==
    {t \o s \o r : t \in TagParts, s \in SigParts, r \in RestParts}

Str_A == <<"A">>
Str_B == <<"B">>
Str_f == <<"f">>
Str_F == <<"F">>
Str_g == <<"g">>

\* language data of one category with one function
OneFunction(raw) ==
    << [key |-> Str_A, value |-> << [key |-> Str_f, value |-> raw] >>] >>

\* language data with several functions: names that differ in case only, one
\* name in two categories, an empty category
ExampleData ==
    { << [key |-> Str_A, value |-> << [key |-> Str_f, value |-> <<"(", "a", " ", "-", "-", ">", " ", "b", ")", " ", "d">>],
                                      [key |-> Str_g, value |-> <<"h">>] >>],
         [key |-> Str_B, value |-> << [key |-> Str_F, value |-> <<"@", "k", " ", "(", "a", " ", "-", "-", ">", " ", "b", ")", " ", "e">>] >>] >>,
      << [key |-> Str_A, value |-> << [key |-> Str_f, value |-> <<"(", "a", " ", "-", "-", ">", " ", "b", ")", " ", "d">>] >>],
         [key |-> Str_B, value |-> << [key |-> Str_f, value |-> <<"(", "a", " ", "-", "-", ">", " ", "b", ")", " ", "d">>] >>] >>,
      << [key |-> Str_A, value |-> << [key |-> Str_F, value |-> <<"x">>],
                                      [key |-> Str_g, value |-> <<"y">>],
                                      [key |-> Str_f, value |-> <<"z">>] >>],
         [key |-> Str_B, value |-> <<>>] >>,
      <<>> }

LanguageFiles == {OneFunction(raw) : raw \in RawDescriptions} \cup ExampleData

\* either a help text is about to be parsed, or language data written by an
\* earlier regeneration is about to be loaded
CatalogInit ==
    /\ \/ /\ output \in HelpTexts
          /\ languageData = [given |-> FALSE, data |-> <<>>]
       \/ /\ output = <<>>
          /\ languageData \in {[given |-> TRUE, data |-> d] : d \in LanguageFiles}
    /\ lines = <<>>
    /\ parsePc = "idle"
    /\ lineIdx = 0
    /\ catalog = <<>>
    /\ currentCategory = Null
    /\ inFunctionSection = FALSE
    /\ keywords = <<>>

\* parseSapfHelpOutput is entered: split, empty result, no category, seeking
ParseStart ==
    /\ parsePc = "idle"
    /\ ~ languageData.given
    /\ lines' = Split(output)
    /\ lineIdx' = 0
    /\ catalog' = ParseStateInit.catalog
    /\ currentCategory' = ParseStateInit.currentCategory
    /\ inFunctionSection' = ParseStateInit.inFunctionSection
    /\ parsePc' = "loop"
    /\ UNCHANGED <<output, languageData, keywords>>

\* the state of the running loop as HandleLine takes it
ParseStateNow == ParseState(catalog, currentCategory, inFunctionSection, FALSE)

\* the loop variables after an iteration that took branch k and left r
ParseLineWith(k, r) ==
    /\ r.kind = k
    /\ catalog' = r.st.catalog
    /\ currentCategory' = r.st.currentCategory
    /\ inFunctionSection' = r.st.inFunctionSection
    /\ parsePc' = IF r.st.threw THEN "threw" ELSE "loop"

\* one iteration of the loop that takes the branch k
ParseLine(k) ==
    /\ parsePc = "loop"
    /\ lineIdx < Len(lines)
    /\ ParseLineWith(k, HandleLine(ParseStateNow, lines[lineIdx + 1]))
    /\ lineIdx' = lineIdx + 1
    /\ UNCHANGED <<output, lines, languageData, keywords>>

\* if (line.includes('BUILT IN FUNCTIONS')) { inFunctionSection = true; continue; }
MarkerLine == ParseLine("marker")

\* if (!inFunctionSection) { continue; }
SeekingLine == ParseLine("seeking")

\* if (categoryMatch) { ...; continue; }
CategoryLine == ParseLine("category")

\* if (functionMatch) { ... }
FunctionLine == ParseLine("function")

\* else if (line.match(/^\s{6,}/)) { if (opMatch) { ... } }
OperatorLine == ParseLine("operator")

\* if (sigOnlyMatch) { ... }
SigOnlyLine == ParseLine("sigOnly")

\* if (noSigMatch) { ... }
NoSigLine == ParseLine("noSig")

\* a line of the function section that changes nothing
IgnoredLine == ParseLine("ignored")

\* return result; the caller holds it as newLanguageData
ParseReturn ==
    /\ parsePc = "loop"
    /\ lineIdx = Len(lines)
    /\ parsePc' = "returned"
    /\ languageData' = [given |-> TRUE, data |-> catalog]
    /\ UNCHANGED <<output, lines, lineIdx, catalog, currentCategory,
                   inFunctionSection, keywords>>

\* this.keywords = loadKeywords(newLanguageData), or loadKeywords of the data
\* read from language-local.json
LoadKeywords ==
    /\ languageData.given
    /\ parsePc \in {"idle", "returned"}
    /\ keywords' = loadKeywords(languageData.data)
    /\ parsePc' = "loaded"
    /\ UNCHANGED <<output, lines, lineIdx, catalog, currentCategory,
                   inFunctionSection, languageData>>

InitCatalog == CatalogInit /\ LocIdle /\ FmtIdle /\ CmdIdle /\ ReplIdle

NextCatalog ==
    \/ ParseStart /\ UNCHANGED <<locVars, fmtVars, cmdVars, replVars>>
    \/ MarkerLine /\ UNCHANGED <<locVars, fmtVars, cmdVars, replVars>>
    \/ SeekingLine /\ UNCHANGED <<locVars, fmtVars, cmdVars, replVars>>
    \/ CategoryLine /\ UNCHANGED <<locVars, fmtVars, cmdVars, replVars>>
    \/ FunctionLine /\ UNCHANGED <<locVars, fmtVars, cmdVars, replVars>>
    \/ OperatorLine /\ UNCHANGED <<locVars, fmtVars, cmdVars, replVars>>
    \/ SigOnlyLine /\ UNCHANGED <<locVars, fmtVars, cmdVars, replVars>>
    \/ NoSigLine /\ UNCHANGED <<locVars, fmtVars, cmdVars, replVars>>
    \/ IgnoredLine /\ UNCHANGED <<locVars, fmtVars, cmdVars, replVars>>
    \/ ParseReturn /\ UNCHANGED <<locVars, fmtVars, cmdVars, replVars>>
    \/ LoadKeywords /\ UNCHANGED <<locVars, fmtVars, cmdVars, replVars>>

SpecCatalog == InitCatalog /\ [][NextCatalog]_vars

---------------------------------------------------------------------------
(* Claims about the help-text parser, under SpecCatalog.                   *)

\* a help text has been split: the parser runs or has run on it
Parsing == parsePc \in {"loop", "returned", "threw", "loaded"} /\ lines # <<>>

IsMarkerLine(line) == Includes(line, Str_BUILT_IN_FUNCTIONS)

\* the number of the first line that contains the marker, Len + 1 without one
FirstMarker(ls) ==
    IF \E k \in 1..Len(ls) : IsMarkerLine(ls[k])
    THEN CHOOSE k \in 1..Len(ls) :
             IsMarkerLine(ls[k]) /\ \A m \in 1..(k - 1) : ~ IsMarkerLine(ls[m])
    ELSE Len(ls) + 1

NoMarker(ls) == FirstMarker(ls) > Len(ls)

\* C12: no line before the first line that contains the marker creates a
\* category or an entry, whatever it looks like; a text without marker line
\* yields the empty catalog and the parser does not raise on it.
C12_SeekingDiscards ==
    Parsing =>
        /\ lineIdx <= FirstMarker(lines) =>
               catalog = <<>> /\ currentCategory = Null /\ parsePc # "threw"
        /\ NoMarker(lines) => parsePc # "threw"
        /\ NoMarker(lines) /\ parsePc \in {"returned", "loaded"} =>
               languageData.data = <<>>

\* a text was parsed whose preamble holds a banner and a function line, and
\* whose listing after the marker made a category with an entry
C12_Witness ==
    /\ parsePc = "returned"
    /\ FirstMarker(lines) >= 3
    /\ \E j \in 1..(FirstMarker(lines) - 1) :
           /\ categoryMatch(lines[j]).matched
           /\ \E k \in (j + 1)..(FirstMarker(lines) - 1) : functionMatch(lines[k]).matched
           /\ ~ HasOwn(catalog, categoryMatch(lines[j]).name)
    /\ Len(catalog) = 1
    /\ catalog[1].value # <<>>

\* the lines of the listing: after the first marker line, no marker in them
ListingIdx(ls) == {k \in (FirstMarker(ls) + 1)..Len(ls) : ~ IsMarkerLine(ls[k])}

\* the banner lines of the listing and the names they give
BannerIdx(ls) == {k \in ListingIdx(ls) : categoryMatch(ls[k]).matched}

BannerNames(ls) == {categoryMatch(ls[k]).name : k \in BannerIdx(ls)}

\* the banner a listing line stands under: the last banner line before it
HasBanner(ls, k) == \E b \in BannerIdx(ls) : b < k

BannerOf(ls, k) ==
    CHOOSE b \in BannerIdx(ls) : b < k /\ \A c \in BannerIdx(ls) : c < k => c <= b

CategoryOf(ls, k) == categoryMatch(ls[BannerOf(ls, k)]).name

\* the listing lines that record an entry: under a banner, not blank, not the
\* automapping legend, taken by one of the four patterns
EntryIdx(ls) ==
    {k \in ListingIdx(ls) \ BannerIdx(ls) :
        /\ HasBanner(ls, k)
        /\ Trim(ls[k]) # <<>>
        /\ ~ StartsWith(ls[k], Str_Argument_Automapping)
        /\ entryMatch(ls[k]).kind # "ignored"}

KeysOf(obj) == {obj[k].key : k \in 1..Len(obj)}

\* the entry of line k is in the catalog cat, under the category of the line
Recorded(cat, ls, k) ==
    /\ HasOwn(cat, CategoryOf(ls, k))
    /\ HasOwn(GetOwn(cat, CategoryOf(ls, k)), entryMatch(ls[k]).name)

\* C13: banners merge: at the end the catalog has exactly one key per
\* distinct banner name, and every entry recorded under any occurrence of a
\* banner, earlier or later, is present under that one key.
C13_BannersMerge ==
    parsePc = "returned" =>
        /\ KeysOf(catalog) = BannerNames(lines)
        /\ Len(catalog) = Cardinality(BannerNames(lines))
        /\ \A k \in EntryIdx(lines) : Recorded(catalog, lines, k)

\* the same for the banners that name no inherited property and the function
\* names other than __proto__, whenever the parser returns
BannersMergeOwnNames ==
    parsePc = "returned" =>
        /\ KeysOf(catalog) = BannerNames(lines) \ ObjectPrototypeKeys
        /\ Len(catalog) = Cardinality(KeysOf(catalog))
        /\ \A k \in EntryIdx(lines) :
               entryMatch(lines[k]).name # Str___proto__ => Recorded(catalog, lines, k)

\* the outcome of a run of the parser: its catalog, or that it threw
OutcomeOf(st) == IF st.threw THEN [threw |-> TRUE, catalog |-> <<>>]
                 ELSE [threw |-> FALSE, catalog |-> st.catalog]

\* the parser's loop run over the lines ls and then over the same lines again
ParseTwice(ls) == OutcomeOf(ParseLines(ls \o ls, ParseStateInit))

\* the outcome of the run in progress, once it has ended
Ended == parsePc \in {"returned", "threw"}

OutcomeNow == [threw |-> parsePc = "threw",
               catalog |-> IF parsePc = "threw" THEN <<>> ELSE catalog]

\* C14 as stated: for every help text, parsing it twice into one catalog
\* yields the catalog of parsing it once.
C14_ParseTwice == Ended => ParseTwice(lines) = OutcomeNow

\* a line that one of the four entry patterns takes
LooksLikeEntry(line) ==
    /\ Trim(line) # <<>>
    /\ ~ StartsWith(line, Str_Argument_Automapping)
    /\ ~ IsMarkerLine(line)
    /\ entryMatch(line).kind # "ignored"

\* no banner line stands before the first marker line
NoBannerInPreamble(ls) ==
    \A k \in 1..(FirstMarker(ls) - 1) : ~ categoryMatch(ls[k]).matched

\* no entry line stands before the first banner line of the listing
EntriesFollowBanner(ls) ==
    \A b \in BannerIdx(ls) :
        (\A c \in BannerIdx(ls) : b <= c) =>
            \A k \in 1..(b - 1) : ~ LooksLikeEntry(ls[k])

\* C14 amended: the same for every help text in which no banner line stands
\* before the first marker line and no entry line before the first banner
\* line of the listing.
C14_ParseTwiceOrdered ==
    Ended /\ NoBannerInPreamble(lines) /\ EntriesFollowBanner(lines) =>
        ParseTwice(lines) = OutcomeNow

\* a text with a preamble, a banner that recurs and entries under both of its
\* occurrences was parsed
C14_Witness ==
    /\ parsePc = "returned"
    /\ FirstMarker(lines) \in 2..Len(lines)
    /\ NoBannerInPreamble(lines)
    /\ EntriesFollowBanner(lines)
    /\ \E j, k \in BannerIdx(lines) :
           /\ j < k
           /\ categoryMatch(lines[j]).name = categoryMatch(lines[k]).name
           /\ \E m, n \in EntryIdx(lines) : j < m /\ m < k /\ k < n
    /\ ParseTwice(lines) = OutcomeNow


\* the index has been built from the catalog of the text parsed
IndexedText == parsePc = "loaded" /\ lines # <<>>

\* the index entry (a KeywordInfo) held under the key key is info
Indexed(key, info) ==
    \E k \in 1..Len(keywords) : keywords[k].key = key /\ keywords[k].value = info

HasArrow(s) == \E i \in 1..(Len(s) - 2) : SubSeq(s, i, i + 2) = Str_arrow

\* the line is ' name (sig) desc' with the name ending at n and the signature
\* at e: one leading space, a name without white space, a parenthesized arrow
\* signature, one space, a description that is not blank
MainFormAt(line, n, e) ==
    /\ 2 <= n /\ n + 3 <= e /\ e + 2 <= Len(line)
    /\ line[1] = " "
    /\ \A i \in 2..n : ~ IsWhite(line[i])
    /\ line[n + 1] = " "
    /\ line[n + 2] = "("
    /\ \A i \in (n + 2)..(e - 1) : line[i] # ")"
    /\ line[e] = ")"
    /\ HasArrow(SubSeq(line, n + 2, e))
    /\ line[e + 1] = " "
    /\ Trim(SubSeq(line, e + 2, Len(line))) # <<>>
    /\ ~ Includes(line, <<"\r">>)

IsMainForm(line) == \E n, e \in 1..Len(line) : MainFormAt(line, n, e)

\* the lines of the listing of the form ' name (sig) desc' that follow a banner
MainFormIdx(ls) == {k \in ListingIdx(ls) : HasBanner(ls, k) /\ IsMainForm(ls[k])}

\* the entry the line k of that form is to yield
MainFormEntry(ls, k, n, e) ==
    KeywordInfo(SubSeq(ls[k], 2, n), SubSeq(ls[k], n + 2, e),
                Trim(SubSeq(ls[k], e + 2, Len(ls[k]))), CategoryOf(ls, k), Null)

YieldsMainFormEntry(ls, k) ==
    \A n, e \in 1..Len(ls[k]) :
        MainFormAt(ls[k], n, e) =>
            Indexed(toLowerCase(SubSeq(ls[k], 2, n)), MainFormEntry(ls, k, n, e))

Str_Math == <<"M", "a", "t", "h">>
Str_add == <<"a", "d", "d">>

\* C15: every listing line ' name (sig) desc' (one leading space, an arrow
\* signature, a description) that follows a banner for category C yields,
\* after parsing and index building, the entry {name, '(sig)', special null,
\* desc, C}; the scenario text yields the one category Math with the single
\* entry add / '(a b --> c)' / null / 'adds two'.
C15_MainFormEntry ==
    /\ Parsing /\ parsePc = "threw" => MainFormIdx(lines) = {}
    /\ IndexedText => \A k \in MainFormIdx(lines) : YieldsMainFormEntry(lines, k)
    /\ IndexedText /\ output = Str_scenario =>
           /\ languageData.data =
                  << [key |-> Str_Math,
                      value |-> << [key |-> Str_add, value |-> <<"(", "a", " ", "b", " ", "-", "-", ">", " ", "c", ")", " ", "a", "d", "d", "s", " ", "t", "w", "o">>] >>] >>
           /\ keywords =
                  << [key |-> Str_add,
                      value |-> KeywordInfo(Str_add, <<"(", "a", " ", "b", " ", "-", "-", ">", " ", "c", ")">>, <<"a", "d", "d", "s", " ", "t", "w", "o">>, Str_Math, Null)] >>

\* no other entry line of the text has the function name of line k, case apart
UniqueName(ls, k) ==
    \A j \in EntryIdx(ls) \ {k} :
        toLowerCase(entryMatch(ls[j]).name) # toLowerCase(entryMatch(ls[k]).name)

\* a line whose entry is kept as an own property: its category and its
\* function name are no names that the catalog objects inherit
OwnNames(ls, k) ==
    /\ CategoryOf(ls, k) \notin ObjectPrototypeKeys
    /\ entryMatch(ls[k]).name # Str___proto__

\* the same for the lines whose function name no other line has, in the texts
\* on which the parser returns
MainFormEntryUniqueNames ==
    /\ IndexedText =>
           \A k \in MainFormIdx(lines) :
               UniqueName(lines, k) /\ OwnNames(lines, k) => YieldsMainFormEntry(lines, k)
    /\ IndexedText /\ output = Str_scenario =>
           /\ Len(languageData.data) = 1
           /\ keywords =
                  << [key |-> Str_add,
                      value |-> KeywordInfo(Str_add, <<"(", "a", " ", "b", " ", "-", "-", ">", " ", "c", ")">>, <<"a", "d", "d", "s", " ", "t", "w", "o">>, Str_Math, Null)] >>

\* the listing lines the parser matches with an '@tag'-prefixed signature
TaggedIdx(ls) ==
    {k \in EntryIdx(ls) :
        /\ functionMatch(ls[k]).matched
        /\ functionMatch(ls[k]).signature[1] = "@"}

\* the parenthesized text of such a signature: from its "(" on
ParenText(signature) ==
    SubSeq(signature,
           CHOOSE i \in 1..Len(signature) :
               signature[i] = "(" /\ \A j \in 1..(i - 1) : signature[j] # "(",
           Len(signature))

\* the tag of such a signature: after the "@", up to the white space or "("
TagText(signature) ==
    SubSeq(signature, 2,
           CHOOSE i \in 2..(Len(signature) - 1) :
               /\ IsWhite(signature[i + 1]) \/ signature[i + 1] = "("
               /\ \A j \in 2..i : ~ IsWhite(signature[j]) /\ signature[j] # "(")

\* C16: every listing line matched with an '@tag'-prefixed signature gives an
\* entry with special = tag without '@', signature = the parenthesized text,
\* description = desc; the tag is never inside signature or description.
C16_TagRelocated ==
    IndexedText =>
        \A k \in TaggedIdx(lines) :
            UniqueName(lines, k) /\ OwnNames(lines, k) =>
                Indexed(toLowerCase(functionMatch(lines[k]).name),
                        KeywordInfo(functionMatch(lines[k]).name,
                                    ParenText(functionMatch(lines[k]).signature),
                                    Trim(functionMatch(lines[k]).description),
                                    CategoryOf(lines, k),
                                    TagText(functionMatch(lines[k]).signature)))

\* the same for the tags of lower-case letters before an arrow signature
TagRelocatedLowerArrow ==
    IndexedText =>
        \A k \in TaggedIdx(lines) :
            /\ UniqueName(lines, k) /\ OwnNames(lines, k)
            /\ \A i \in 1..Len(TagText(functionMatch(lines[k]).signature)) :
                   InClass("lower", TagText(functionMatch(lines[k]).signature)[i])
            /\ HasArrow(ParenText(functionMatch(lines[k]).signature))
            => Indexed(toLowerCase(functionMatch(lines[k]).name),
                       KeywordInfo(functionMatch(lines[k]).name,
                                   ParenText(functionMatch(lines[k]).signature),
                                   Trim(functionMatch(lines[k]).description),
                                   CategoryOf(lines, k),
                                   TagText(functionMatch(lines[k]).signature)))

\* the listing lines that are malformed: blank, before the first banner,
\* the automapping legend, or matched by none of the four entry patterns
MalformedIdx(ls) ==
    {k \in ListingIdx(ls) \ BannerIdx(ls) :
        \/ Trim(ls[k]) = <<>>
        \/ ~ HasBanner(ls, k)
        \/ StartsWith(ls[k], Str_Argument_Automapping)
        \/ entryMatch(ls[k]).kind = "ignored"}

\* the lines of ls from the k-th on without those numbered in drop
RECURSIVE DropLines(_, _, _)
DropLines(ls, k, drop) ==
    IF k > Len(ls) THEN <<>>
    ELSE (IF k \in drop THEN <<>> ELSE <<ls[k]>>) \o DropLines(ls, k + 1, drop)

\* the outcome of the run is that of the text without its malformed lines
MalformedLinesIgnored ==
    Ended => OutcomeNow = OutcomeOf(ParseLines(DropLines(lines, 1, MalformedIdx(lines)),
                                               ParseStateInit))

\* C17: malformed content never aborts parsing: a malformed line of the
\* listing leaves the catalog unchanged, every later well-formed line is still
\* recorded, and parseSapfHelpOutput raises for no input.
C17_NeverAborts ==
    /\ parsePc # "threw"
    /\ MalformedLinesIgnored
    /\ parsePc = "returned" =>
           \A k \in EntryIdx(lines) : Recorded(catalog, lines, k)


---------------------------------------------------------------------------
(* Claims about the keyword index, under SpecCatalog.                      *)

\* the functions of the language data: category number and item number
FunctionsOf(data) ==
    UNION {{<<c, i>> : i \in 1..Len(data[c].value)} : c \in 1..Len(data)}

NameOf(data, f) == data[f[1]].value[f[2]].key
RawOf(data, f) == data[f[1]].value[f[2]].value
CategoryNameOf(data, f) == data[f[1]].key

SameLowerName(data, f, g) == toLowerCase(NameOf(data, f)) = toLowerCase(NameOf(data, g))

\* the rule of the description split, read off a raw description.
\* The tag: the lower-case letters after a leading "@" (0: no tag)
RuleTagEnd(raw) ==
    IF Len(raw) >= 2 /\ raw[1] = "@" /\ InClass("lower", raw[2])
    THEN CHOOSE t \in 2..Len(raw) :
             /\ \A j \in 2..t : InClass("lower", raw[j])
             /\ t < Len(raw) => ~ InClass("lower", raw[t + 1])
    ELSE 0

\* where the text after the tag and the white space behind it starts
RuleAfterTag(raw) ==
    IF RuleTagEnd(raw) = 0 THEN 1
    ELSE CHOOSE p \in (RuleTagEnd(raw) + 1)..(Len(raw) + 1) :
             /\ \A j \in (RuleTagEnd(raw) + 1)..(p - 1) : IsWhite(raw[j])
             /\ p <= Len(raw) => ~ IsWhite(raw[p])

\* the signature: "(" at position p up to the first ")" with "-->" between
\* them (0: no signature)
RuleSigEnd(raw, p) ==
    IF /\ p <= Len(raw)
       /\ raw[p] = "("
       /\ \E e \in (p + 1)..Len(raw) :
              /\ raw[e] = ")"
              /\ \A j \in p..(e - 1) : raw[j] # ")"
              /\ HasArrow(SubSeq(raw, p + 1, e - 1))
    THEN CHOOSE e \in (p + 1)..Len(raw) : raw[e] = ")" /\ \A j \in p..(e - 1) : raw[j] # ")"
    ELSE 0

RuleSpecial(raw) == IF RuleTagEnd(raw) = 0 THEN Null ELSE SubSeq(raw, 2, RuleTagEnd(raw))

RuleSignature(raw) ==
    IF RuleSigEnd(raw, RuleAfterTag(raw)) = 0 THEN Null
    ELSE SubSeq(raw, RuleAfterTag(raw), RuleSigEnd(raw, RuleAfterTag(raw)))

RuleDescription(raw) ==
    Trim(SubSeq(raw,
                IF RuleSigEnd(raw, RuleAfterTag(raw)) = 0 THEN RuleAfterTag(raw)
                ELSE RuleSigEnd(raw, RuleAfterTag(raw)) + 1,
                Len(raw)))

\* the index was built from language data in which function f alone has its
\* lower-cased name
AloneWithName(data, f) ==
    \A g \in FunctionsOf(data) \ {f} : ~ SameLowerName(data, f, g)

\* the language data is the one function f of category A with description raw,
\* and the index holds the given split of it
SplitsInto(raw, special, signature, description) ==
    languageData.data = OneFunction(raw) =>
        keywords = << [key |-> Str_f,
                       value |-> KeywordInfo(Str_f, signature, description, Str_A, special)] >>

Retrievable(data, f) ==
    Indexed(toLowerCase(NameOf(data, f)),
            parseKeywordDescription(RawOf(data, f), NameOf(data, f), CategoryNameOf(data, f)))

\* C19 as stated: every function of every category is retrievable from the
\* index under its lower-cased name, and the index has as many entries as the
\* catalog has functions.
C19_Lossless ==
    parsePc = "loaded" =>
        /\ \A f \in FunctionsOf(languageData.data) : Retrievable(languageData.data, f)
        /\ Len(keywords) = Cardinality(FunctionsOf(languageData.data))

\* function g comes after function f in the order of the catalog
Later(f, g) == g[1] > f[1] \/ (g[1] = f[1] /\ g[2] > f[2])

\* C19 amended: the index has one entry per distinct lower-cased function
\* name; a function is retrievable under its lower-cased name unless a later
\* function of the catalog has the same lower-cased name.
C19_LastOfEachName ==
    parsePc = "loaded" =>
        /\ \A f \in FunctionsOf(languageData.data) :
               (\A g \in FunctionsOf(languageData.data) :
                    Later(f, g) => ~ SameLowerName(languageData.data, f, g))
               => Retrievable(languageData.data, f)
        /\ Len(keywords) =
               Cardinality({toLowerCase(NameOf(languageData.data, f)) :
                                f \in FunctionsOf(languageData.data)})
        /\ \A j, k \in 1..Len(keywords) : keywords[j].key = keywords[k].key => j = k

\* an index was built from a catalog with two functions of one lower-cased
\* name: it holds the later one, and the functions with a name of their own
C19_Witness ==
    /\ parsePc = "loaded"
    /\ \E f, g \in FunctionsOf(languageData.data) :
           /\ Later(f, g)
           /\ SameLowerName(languageData.data, f, g)
           /\ ~ Retrievable(languageData.data, f)
           /\ Retrievable(languageData.data, g)
    /\ \E f \in FunctionsOf(languageData.data) : AloneWithName(languageData.data, f)
    /\ Len(keywords) >= 2


---------------------------------------------------------------------------
(* The language commands (LanguageCommands): regenerate and remove.  A      *)
(* regenerate handler suspends at the prelude warning and while             *)
(* generateLanguageDefinitions runs the external process; the remove        *)
(* handler has no suspension point.  Handlers of several invocations        *)
(* interleave at these points only.                                         *)

MaxRegens == 2
MaxRemoves == 1

Runs == 1..MaxRegens

\* the bundled language.json, imported as keywordsData: here a catalog of two
\* categories
DefaultData ==
    << [key |-> Str_A, value |-> << [key |-> Str_f, value |-> <<"(", "a", " ", "-", "-", ">", " ", "b", ")", " ", "d">>],
                                    [key |-> Str_g, value |-> <<"h">>] >>],
       [key |-> Str_B, value |-> << [key |-> Str_F, value |-> <<"@", "k", " ", "(", "a", " ", "-", "-", ">", " ", "b", ")", " ", "e">>] >>] >>

Str_help_two ==
    <<"s", "a", "p", "f", "\n", "B", "U", "I", "L", "T", " ", "I", "N", " ", "F", "U", "N", "C", "T", "I", "O", "N", "S", "\n", "*", "*", "*", " ", "A", " ", "*", "*", "*", "\n", " ", "f", " ", "(", "a", " ", "-", "-", ">", " ", "b", ")", " ", "d", "\n", "*", "*", "*", " ", "B", " ", "*", "*", "*", "\n", " ", "g", " ", "@", "k", " ", "(", "a", " ", "-", "-", ">", " ", "b", ")", " ", "\"", "e", "\\", "\\", "f", "\"", "\n">>

Str_help_throws == <<"B", "U", "I", "L", "T", " ", "I", "N", " ", "F", "U", "N", "C", "T", "I", "O", "N", "S", "\n", "*", "*", "*", " ", "c", "o", "n", "s", "t", "r", "u", "c", "t", "o", "r", " ", "*", "*", "*", "\n", " ", "f", " ", "(", "a", " ", "-", "-", ">", " ", "b", ")", " ", "d">>

Str_prelude == <<"p", "r", "e", "l", "u", "d", "e", ".", "s", "a", "p", "f">>

\* the values of the setting sapf.preludePath: not set, blank, a path
PreludePaths == { <<>>, <<" ">>, Str_prelude }

\* what the spawned process does: an 'error' event, or 'close' with an exit
\* code after writing stdout
ProcessResults ==
    { [kind |-> "error", code |-> 0, stdout |-> <<>>],
      [kind |-> "close", code |-> 1, stdout |-> Str_scenario],
      [kind |-> "close", code |-> 0, stdout |-> Str_scenario],
      [kind |-> "close", code |-> 0, stdout |-> Str_help_two],
      [kind |-> "close", code |-> 0, stdout |-> Str_help_throws] }

Failure(why) == [ok |-> FALSE, why |-> why, data |-> <<>>]

\* the outcome of parsing the captured stdout: the catalog, or the rethrown
\* exception of the parser
ParsedOutcome(st) ==
    IF st.threw THEN Failure("parse")
    ELSE [ok |-> TRUE, why |-> "none", data |-> st.catalog]

\* generateLanguageDefinitions(sapfPath, preludePath): the promise's outcome,
\* given whether the prelude file exists and what the process does
generateLanguageDefinitions(preludePath, preludeExists, proc) ==
    IF Trim(preludePath) # <<>> /\ ~ preludeExists THEN Failure("prelude")
    ELSE IF proc.kind = "error" THEN Failure("spawn")
    ELSE IF proc.code # 0 THEN Failure("exit")
    ELSE ParsedOutcome(parseSapfHelpOutput(proc.stdout))

\* the outcomes of generateLanguageDefinitions for every setting, file state
\* and process result
Generated ==
    [p \in PreludePaths, e \in BOOLEAN, proc \in ProcessResults |->
        generateLanguageDefinitions(p, e, proc)]

\* JSON values of the language data: strings and objects
JsonString(chars) == [kind |-> "string", chars |-> chars, members |-> <<>>]

JsonObject(members) == [kind |-> "object", chars |-> <<>>, members |-> members]

\* the language data as the JSON value it is: { category: { items: { name:
\* description } } }
ItemsValue(items) ==
    JsonObject([k \in 1..Len(items) |->
                   [key |-> items[k].key, value |-> JsonString(items[k].value)]])

LanguageDataValue(data) ==
    JsonObject([c \in 1..Len(data) |->
                   [key |-> data[c].key,
                    value |-> JsonObject(<<[key |-> <<"i", "t", "e", "m", "s">>,
                                            value |-> ItemsValue(data[c].value)]>>)]])

\* the escape of one character inside a JSON string
EscapeChar(c) ==
    IF c = "\"" THEN <<"\\", "\"">>
    ELSE IF c = "\\" THEN <<"\\", "\\">>
    ELSE IF c = "\n" THEN <<"\\", "n">>
    ELSE IF c = "\t" THEN <<"\\", "t">>
    ELSE <<c>>

RECURSIVE EscapeChars(_)
EscapeChars(s) == IF s = <<>> THEN <<>> ELSE EscapeChar(Head(s)) \o EscapeChars(Tail(s))

\* faulty variant of JsonQuote: no character is escaped
JsonQuote_Raw(s) == <<"\"">> \o s \o <<"\"">>

\* a string as JSON.stringify writes it
JsonQuote(s) == <<"\"">> \o EscapeChars(s) \o <<"\"">>

\* JSON.stringify(value, null, indentSize) at the nesting depth given by the
\* indent of the enclosing line
RECURSIVE StringifyValue(_, _, _)
RECURSIVE StringifyMembers(_, _, _)
StringifyValue(v, indent, size) ==
    IF v.kind = "string" THEN JsonQuote(v.chars)
    ELSE IF v.members = <<>> THEN <<"{", "}">>
    ELSE <<"{", "\n">> \o StringifyMembers(v.members, indent + size, size)
             \o <<"\n">> \o Repeat(" ", indent) \o <<"}">>

StringifyMembers(ms, indent, size) ==
    Repeat(" ", indent) \o JsonQuote(Head(ms).key) \o <<":", " ">>
        \o StringifyValue(Head(ms).value, indent, size)
        \o (IF Len(ms) = 1 THEN <<>>
            ELSE <<",", "\n">> \o StringifyMembers(Tail(ms), indent, size))

\* JSON.stringify(newLanguageData, null, indentSize)
JSONstringify(data, size) == StringifyValue(LanguageDataValue(data), 0, size)

\* JSON.parse: the position after the white space from position i on
RECURSIVE SkipWhite(_, _)
SkipWhite(t, i) ==
    IF i <= Len(t) /\ t[i] \in {" ", "\n", "\t", "\r"} THEN SkipWhite(t, i + 1) ELSE i

\* a value read up to position next - 1, or a SyntaxError
JsonRead(value, next) == [ok |-> TRUE, value |-> value, next |-> next]

SyntaxError == [ok |-> FALSE, value |-> JsonString(<<>>), next |-> 0]

\* the character an escape stands for (\b, \f, \r, \u are not used by the
\* texts of the model)
Unescaped(c) ==
    IF c = "n" THEN "\n" ELSE IF c = "t" THEN "\t" ELSE c

\* the rest of a string literal from position i on, after the characters acc
RECURSIVE ReadString(_, _, _)
ReadString(t, i, acc) ==
    IF i > Len(t) THEN SyntaxError
    ELSE IF t[i] = "\"" THEN JsonRead(JsonString(acc), i + 1)
    ELSE IF t[i] \in {"\n", "\t"} THEN SyntaxError
    ELSE IF t[i] = "\\"
         THEN IF i + 1 <= Len(t) /\ t[i + 1] \in {"\"", "\\", "/", "n", "t"}
              THEN ReadString(t, i + 2, Append(acc, Unescaped(t[i + 1])))
              ELSE SyntaxError
    ELSE ReadString(t, i + 1, Append(acc, t[i]))

\* a value at position i (objects and strings: language data has no other)
RECURSIVE ReadValue(_, _)
RECURSIVE ReadMembers(_, _, _)
RECURSIVE ReadMemberValue(_, _, _, _)
RECURSIVE ReadNextMember(_, _, _, _, _)
ReadValue(t, i) ==
    IF i > Len(t) THEN SyntaxError
    ELSE IF t[i] = "\"" THEN ReadString(t, i + 1, <<>>)
    ELSE IF t[i] = "{"
         THEN IF SkipWhite(t, i + 1) <= Len(t) /\ t[SkipWhite(t, i + 1)] = "}"
              THEN JsonRead(JsonObject(<<>>), SkipWhite(t, i + 1) + 1)
              ELSE ReadMembers(t, SkipWhite(t, i + 1), <<>>)
    ELSE SyntaxError

\* the members of an object from the key at position i on
ReadMembers(t, i, acc) ==
    IF i > Len(t) \/ t[i] # "\"" THEN SyntaxError
    ELSE ReadMemberValue(t, ReadString(t, i + 1, <<>>), acc, 0)

\* after the key: the colon and the value
ReadMemberValue(t, key, acc, unused) ==
    IF ~ key.ok THEN SyntaxError
    ELSE IF SkipWhite(t, key.next) > Len(t) \/ t[SkipWhite(t, key.next)] # ":"
    THEN SyntaxError
    ELSE ReadNextMember(t, key.value.chars,
                        ReadValue(t, SkipWhite(t, SkipWhite(t, key.next) + 1)), acc, 0)

\* after the value: a comma and the next member, or the closing brace; a
\* key that is repeated keeps its place and takes the last value
ReadNextMember(t, key, val, acc, unused) ==
    IF ~ val.ok THEN SyntaxError
    ELSE IF SkipWhite(t, val.next) > Len(t) THEN SyntaxError
    ELSE IF t[SkipWhite(t, val.next)] = ","
    THEN ReadMembers(t, SkipWhite(t, SkipWhite(t, val.next) + 1),
                     MapSet(acc, key, val.value))
    ELSE IF t[SkipWhite(t, val.next)] = "}"
    THEN JsonRead(JsonObject(MapSet(acc, key, val.value)), SkipWhite(t, val.next) + 1)
    ELSE SyntaxError

\* JSON.parse(text): the value, when nothing but white space follows it
JSONparseRead(t, read) ==
    IF read.ok /\ SkipWhite(t, read.next) = Len(t) + 1 THEN read ELSE SyntaxError

JSONparse(t) == JSONparseRead(t, ReadValue(t, SkipWhite(t, 1)))

\* the language data a parsed value is read as by loadKeywords:
\* Object.entries(data) with { items } of each category
LanguageDataOf(v) ==
    [c \in 1..Len(v.members) |->
        [key |-> v.members[c].key,
         value |-> [k \in 1..Len(GetOwn(v.members[c].value.members, <<"i", "t", "e", "m", "s">>).members) |->
                       [key |-> GetOwn(v.members[c].value.members, <<"i", "t", "e", "m", "s">>).members[k].key,
                        value |-> GetOwn(v.members[c].value.members,
                                         <<"i", "t", "e", "m", "s">>).members[k].value.chars]]]]

\* try { data = JSON.parse(readFileSync(...)) } catch { data = keywordsData }
ReadLocalData(parsed) ==
    IF parsed.ok THEN LanguageDataOf(parsed.value) ELSE DefaultData

\* the files language-local.json found at activation: those written by
\* earlier regenerations, and one that was cut short
InstalledData ==
    { JSONstringify(parseSapfHelpOutput(Str_scenario).catalog, 2),
      JSONstringify(parseSapfHelpOutput(Str_help_two).catalog, 2),
      SubSeq(JSONstringify(DefaultData, 2), 1, 12) }

\* the language data generateLanguageDefinitions can resolve with
GeneratedData == {Generated[x].data : x \in {y \in DOMAIN Generated : Generated[y].ok}}

\* fs.writeFileSync(languageFilePath, JSON.stringify(newLanguageData, null,
\* indentSize)): the text written for each language data
Written == [d \in GeneratedData |-> JSONstringify(d, 2)]

\* the texts language-local.json can hold
LocalFiles == InstalledData \cup {Written[d] : d \in GeneratedData} \cup {<<>>}

\* JSON.parse of each of them
Parsed == [t \in LocalFiles |-> JSONparse(t)]

\* faulty variant of LoadFromDisk: no fallback to the bundled data
LoadFromDisk_NoDefault(file) ==
    loadKeywords(IF file.exists THEN ReadLocalData(Parsed[file.data]) ELSE <<>>)

\* loadKeywords(undefined, extensionPath): from language-local.json if the
\* file exists, else from the bundled data
LoadFromDisk(file) ==
    loadKeywords(IF file.exists THEN ReadLocalData(Parsed[file.data]) ELSE DefaultData)

\* new LanguageProviderFactory(kw).createProviders(): a completion and a
\* hover provider holding a reference (map) to the Map whose content is kw
createProviders(kw, ref) ==
    << [kind |-> "completion", keywords |-> kw, map |-> ref, disposed |-> FALSE],
       [kind |-> "hover", keywords |-> kw, map |-> ref, disposed |-> FALSE] >>

\* faulty variant of DisposeAll: no provider is disposed
DisposeAll_None(reg, ids) == reg

\* provider.dispose() for each of the providers numbered in ids
DisposeAll(reg, ids) ==
    [k \in 1..Len(reg) |->
        IF \E i \in 1..Len(ids) : ids[i] = k
        THEN [reg[k] EXCEPT !.disposed = TRUE]
        ELSE reg[k]]

Shown(kind, msg, by) == [kind |-> kind, text |-> msg, by |-> by]

\* a handler: its position and its const preludePath while it runs
RegenAt(pc, preludePath) == [pc |-> pc, preludePath |-> preludePath]

RegenIdle == RegenAt("idle", <<>>)

\* no command handler is between disposing the old providers and
\* registering the new ones
NotReloading == [active |-> FALSE, by |-> 0, data |-> <<>>]

\* the handler by (0: the remove command) has disposed the old providers
Reloading(by, data) == [active |-> TRUE, by |-> by, data |-> data]

\* no provider callback is running
NoRequest == [kind |-> "none", provider |-> 0, read |-> FALSE, index |-> <<>>, answer |-> <<>>]

\* activate(): the index is loaded from disk and a first provider pair made
CommandsInit ==
    /\ localFile \in {[exists |-> FALSE, data |-> <<>>]}
                        \cup {[exists |-> TRUE, data |-> d] : d \in InstalledData}
    /\ thisKeywords = LoadFromDisk(localFile)
    /\ maps = <<thisKeywords>>
    /\ thisMap = 1
    /\ registered = createProviders(thisKeywords, 1)
    /\ languageProviders = <<1, 2>>
    /\ subscriptions = <<1, 2>>
    /\ regen = [r \in Runs |-> RegenIdle]
    /\ removes = 0
    /\ shown = Shown("none", "", 0)
    /\ reloading = NotReloading
    /\ request = NoRequest

\* the regenerate command is invoked (handlers are numbered in the order of
\* their invocation): the settings are read; without a
\* prelude path the warning is shown and awaited
RegenInvoke(r, preludePath) ==
    /\ regen[r].pc = "idle"
    /\ \A q \in 1..(r - 1) : regen[q].pc # "idle"
    /\ IF preludePath = <<>>
       THEN /\ regen' = [regen EXCEPT ![r] = RegenAt("prompt", preludePath)]
            /\ shown' = Shown("warning", "configure prelude", r)
       ELSE /\ regen' = [regen EXCEPT ![r] = RegenAt("generating", preludePath)]
            /\ shown' = shown
    /\ UNCHANGED <<thisKeywords, languageProviders, registered, subscriptions, localFile,
                   removes, maps, thisMap, reloading>>

PromptAnswers == {"Open Settings", "Continue Without Prelude", "dismissed"}

\* the warning is answered: 'Open Settings' opens the settings and returns
RegenAnswer(r, answer) ==
    /\ regen[r].pc = "prompt"
    /\ IF answer = "Open Settings"
       THEN /\ regen' = [regen EXCEPT ![r] = RegenAt("settings", <<>>)]
            /\ shown' = Shown("command", "openSettings", r)
       ELSE /\ regen' = [regen EXCEPT ![r].pc = "generating"]
            /\ shown' = shown
    /\ UNCHANGED <<thisKeywords, languageProviders, registered, subscriptions, localFile,
                   removes, maps, thisMap, reloading>>

\* faulty variant of RegenFails: the file is emptied before the outcome is known
RegenFails_FileFirst(r, preludeExists, proc) ==
    /\ regen[r].pc = "generating"
    /\ ~ Generated[regen[r].preludePath, preludeExists, proc].ok
    /\ regen' = [regen EXCEPT ![r] = RegenAt("failed", <<>>)]
    /\ shown' = Shown("error", Generated[regen[r].preludePath, preludeExists, proc].why, r)
    /\ localFile' = [exists |-> TRUE, data |-> <<>>]
    /\ UNCHANGED <<thisKeywords, languageProviders, registered, subscriptions, removes,
                   maps, thisMap, reloading>>

\* generateLanguageDefinitions rejects: the catch block reports the error
\* with its cause
RegenFails(r, preludeExists, proc) ==
    /\ regen[r].pc = "generating"
    /\ ~ Generated[regen[r].preludePath, preludeExists, proc].ok
    /\ regen' = [regen EXCEPT ![r] = RegenAt("failed", <<>>)]
    /\ shown' = Shown("error", Generated[regen[r].preludePath, preludeExists, proc].why, r)
    /\ UNCHANGED <<thisKeywords, languageProviders, registered, subscriptions, localFile,
                   removes, maps, thisMap, reloading>>

\* generateLanguageDefinitions resolves but writeFileSync throws before
\* anything is written (the extension directory is read-only): the catch block
\* reports the error
RegenWriteFails(r, preludeExists, proc) ==
    /\ regen[r].pc = "generating"
    /\ Generated[regen[r].preludePath, preludeExists, proc].ok
    /\ regen' = [regen EXCEPT ![r] = RegenAt("failed", <<>>)]
    /\ shown' = Shown("error", "write", r)
    /\ UNCHANGED <<thisKeywords, languageProviders, registered, subscriptions, localFile,
                   removes, maps, thisMap, reloading>>

\* generateLanguageDefinitions resolves with new language data: the file is
\* written and the old providers are disposed
ApplyData(r, data) ==
    /\ localFile' = [exists |-> TRUE, data |-> Written[data]]
    /\ registered' = DisposeAll(registered, languageProviders)
    /\ reloading' = Reloading(r, data)
    /\ regen' = [regen EXCEPT ![r] = RegenAt("reloading", <<>>)]
    /\ UNCHANGED <<thisKeywords, languageProviders, subscriptions, removes, shown,
                   maps, thisMap>>

RegenApplies(r, preludeExists, proc) ==
    /\ regen[r].pc = "generating"
    /\ Generated[regen[r].preludePath, preludeExists, proc].ok
    /\ ApplyData(r, Generated[regen[r].preludePath, preludeExists, proc].data)

\* faulty variant of SwapIndex: the Map in use is refilled in place
SwapIndex_InPlace(kw) ==
    /\ maps' = [maps EXCEPT ![thisMap] = kw]
    /\ thisMap' = thisMap
    /\ thisKeywords' = kw
    /\ registered' = registered \o createProviders(kw, thisMap)
    /\ languageProviders' = <<Len(registered) + 1, Len(registered) + 2>>
    /\ subscriptions' = subscriptions \o <<Len(registered) + 1, Len(registered) + 2>>

\* this.keywords = loadKeywords(...): the Map that loadKeywords made (new
\* Map(), filled, returned) becomes the active index; a provider pair is
\* made over it, kept in this.languageProviders and pushed to the
\* subscriptions
SwapIndex(kw) ==
    /\ maps' = Append(maps, kw)
    /\ thisMap' = Len(maps) + 1
    /\ thisKeywords' = kw
    /\ registered' = registered \o createProviders(kw, Len(maps) + 1)
    /\ languageProviders' = <<Len(registered) + 1, Len(registered) + 2>>
    /\ subscriptions' = subscriptions \o <<Len(registered) + 1, Len(registered) + 2>>

\* the regenerate handler goes on in the same turn: the index is loaded from
\* the new data, the providers are registered and success is reported
RegenReloads(r) ==
    /\ reloading = Reloading(r, reloading.data)
    /\ r \in Runs
    /\ SwapIndex(loadKeywords(reloading.data))
    /\ regen' = [regen EXCEPT ![r] = RegenAt("applied", <<>>)]
    /\ shown' = Shown("info", "Successfully regenerated SAPF function definitions", r)
    /\ reloading' = NotReloading
    /\ UNCHANGED <<localFile, removes>>

\* the remove command without a local file
RemoveNothing ==
    /\ removes < MaxRemoves
    /\ ~ localFile.exists
    /\ removes' = removes + 1
    /\ shown' = Shown("info", "No local function definition found to remove.", 0)
    /\ UNCHANGED <<thisKeywords, languageProviders, registered, subscriptions, localFile,
                   regen, maps, thisMap, reloading>>

\* the remove command when unlinkSync throws
RemoveFails ==
    /\ removes < MaxRemoves
    /\ localFile.exists
    /\ removes' = removes + 1
    /\ shown' = Shown("error", "Failed to remove local function definition", 0)
    /\ UNCHANGED <<thisKeywords, languageProviders, registered, subscriptions, localFile,
                   regen, maps, thisMap, reloading>>

\* the remove command deletes the file and disposes the old providers
RemoveApplies ==
    /\ removes < MaxRemoves
    /\ localFile.exists
    /\ removes' = removes + 1
    /\ localFile' = [exists |-> FALSE, data |-> <<>>]
    /\ registered' = DisposeAll(registered, languageProviders)
    /\ reloading' = Reloading(0, <<>>)
    /\ UNCHANGED <<thisKeywords, languageProviders, subscriptions, regen, shown,
                   maps, thisMap>>

\* the remove handler goes on in the same turn: the index is loaded from
\* disk, the providers are registered and the removal is reported
RemoveReloads ==
    /\ reloading = Reloading(0, <<>>)
    /\ SwapIndex(LoadFromDisk(localFile))
    /\ shown' = Shown("info", "Local function definition removed.", 0)
    /\ reloading' = NotReloading
    /\ UNCHANGED <<localFile, regen, removes>>

\* what the user has typed before the cursor when completion is asked
CompletionPrefixes == { <<>>, Str_f }

\* the word under the pointer when a hover is asked (none: no word there)
HoverWords == { <<>>, Str_F, Str_B }

HoverInfoLevels == { "off", "full" }

\* [...map.values()].filter(...).map(...): the names of the completion items
CompletionItems(map, current) ==
    [k \in 1..Len(SelectSeq(map, LAMBDA e :
                  current = <<>>
                  \/ StartsWith(toLowerCase(e.value.keyword), toLowerCase(current)))) |->
        SelectSeq(map, LAMBDA e :
                  current = <<>>
                  \/ StartsWith(toLowerCase(e.value.keyword), toLowerCase(current)))[k].value.keyword]

\* map.get(key): the value found, as a sequence of one, or none (undefined)
MapGet(map, key) ==
    IF HasOwn(map, key) THEN <<map[OwnIndex(map, key)].value>> ELSE <<>>

\* provideCompletionItems of the provider p: it reads the Map its factory
\* was given
CompletionRequest(p, current) ==
    /\ registered[p].kind = "completion"
    /\ ~ registered[p].disposed
    /\ request' = [kind |-> "completion", provider |-> p, read |-> TRUE,
                   index |-> maps[registered[p].map],
                   answer |-> CompletionItems(maps[registered[p].map], current)]
    /\ UNCHANGED <<thisKeywords, languageProviders, registered, subscriptions, localFile,
                   regen, removes, shown, maps, thisMap, reloading>>

\* provideHover of the provider p: nothing is read when hovers are off or
\* no word is under the pointer
HoverRequest(p, word, hoverInfo) ==
    /\ registered[p].kind = "hover"
    /\ ~ registered[p].disposed
    /\ request' = IF hoverInfo = "off" \/ word = <<>>
                  THEN [kind |-> "hover", provider |-> p, read |-> FALSE,
                        index |-> <<>>, answer |-> <<>>]
                  ELSE [kind |-> "hover", provider |-> p, read |-> TRUE,
                        index |-> maps[registered[p].map],
                        answer |-> MapGet(maps[registered[p].map], toLowerCase(word))]
    /\ UNCHANGED <<thisKeywords, languageProviders, registered, subscriptions, localFile,
                   regen, removes, shown, maps, thisMap, reloading>>

\* the provider callback returns its answer
RequestReturns ==
    /\ request # NoRequest
    /\ request' = NoRequest
    /\ UNCHANGED <<thisKeywords, languageProviders, registered, subscriptions, localFile,
                   regen, removes, shown, maps, thisMap, reloading>>

\* no callback and no handler is in the middle of its synchronous code: the
\* event loop can start a handler, resume one or call a provider
BetweenTurns == request = NoRequest /\ ~ reloading.active

InitCommands == CommandsInit /\ LocIdle /\ FmtIdle /\ LangIdle /\ ReplIdle

NextCommands ==
    \/ \E r \in Runs, p \in PreludePaths :
           /\ BetweenTurns
           /\ RegenInvoke(r, p) /\ UNCHANGED <<locVars, fmtVars, langVars, replVars, request>>
    \/ \E r \in Runs, a \in PromptAnswers :
           /\ BetweenTurns
           /\ RegenAnswer(r, a) /\ UNCHANGED <<locVars, fmtVars, langVars, replVars, request>>
    \/ \E r \in Runs, e \in BOOLEAN, proc \in ProcessResults :
           /\ BetweenTurns
           /\ RegenFails(r, e, proc) /\ UNCHANGED <<locVars, fmtVars, langVars, replVars, request>>
    \/ \E r \in Runs, e \in BOOLEAN, proc \in ProcessResults :
           /\ BetweenTurns
           /\ RegenApplies(r, e, proc) /\ UNCHANGED <<locVars, fmtVars, langVars, replVars, request>>
    \/ \E r \in Runs, e \in BOOLEAN, proc \in ProcessResults :
           /\ BetweenTurns
           /\ RegenWriteFails(r, e, proc) /\ UNCHANGED <<locVars, fmtVars, langVars, replVars, request>>
    \/ \E r \in Runs :
           RegenReloads(r) /\ UNCHANGED <<locVars, fmtVars, langVars, replVars, request>>
    \/ BetweenTurns /\ RemoveNothing /\ UNCHANGED <<locVars, fmtVars, langVars, replVars, request>>
    \/ BetweenTurns /\ RemoveFails /\ UNCHANGED <<locVars, fmtVars, langVars, replVars, request>>
    \/ BetweenTurns /\ RemoveApplies /\ UNCHANGED <<locVars, fmtVars, langVars, replVars, request>>
    \/ RemoveReloads /\ UNCHANGED <<locVars, fmtVars, langVars, replVars, request>>
    \/ \E p \in DOMAIN registered, c \in CompletionPrefixes :
           /\ BetweenTurns
           /\ CompletionRequest(p, c) /\ UNCHANGED <<locVars, fmtVars, langVars, replVars>>
    \/ \E p \in DOMAIN registered, w \in HoverWords, h \in HoverInfoLevels :
           /\ BetweenTurns
           /\ HoverRequest(p, w, h) /\ UNCHANGED <<locVars, fmtVars, langVars, replVars>>
    \/ RequestReturns /\ UNCHANGED <<locVars, fmtVars, langVars, replVars>>

SpecCommands == InitCommands /\ [][NextCommands]_vars

\* the state a regenerate command may change: index, providers, file
Installed == <<thisKeywords, languageProviders, registered, subscriptions, localFile>>

\* a step of the handler r that does not apply new data
StepOfFailing(r) == regen'[r] # regen[r] /\ regen'[r].pc \notin {"reloading", "applied"}

\* the notification shown by this step is an error of handler r
ErrorReported(r) == shown'.kind = "error" /\ shown'.by = r

C20_Step ==
    \A r \in DOMAIN regen :
        StepOfFailing(r) =>
            /\ Installed' = Installed
            /\ regen'[r].pc = "failed" => ErrorReported(r)

\* C20: a failed regeneration changes nothing: when
\* generateLanguageDefinitions fails (non-zero exit, spawn error, missing
\* prelude file) the regenerate command reports an error, and no step of its
\* handler changes the active index, the registered providers or the file
\* language-local.json.
C20_FailedRegenChangesNothing == [][C20_Step]_vars

\* a regeneration failed on a non-zero exit while another had applied new
\* data before: index, live providers and file are those of the applied one
C20_Witness ==
    \E r, q \in DOMAIN regen :
        /\ regen[r].pc = "failed"
        /\ regen[q].pc = "applied"
        /\ shown = Shown("error", "exit", r)
        /\ localFile.exists
        /\ thisKeywords = LoadFromDisk(localFile)
        /\ thisKeywords # <<>>
        /\ \A i \in 1..Len(languageProviders) :
               /\ ~ registered[languageProviders[i]].disposed
               /\ registered[languageProviders[i]].keywords = thisKeywords

---------------------------------------------------------------------------
(* Claims on the replacement of the index.                                 *)

\* every index the commands can build: from the bundled data, from the data
\* found on disk at activation, from the data of a regeneration
WholeIndexes ==
    {loadKeywords(DefaultData)}
        \cup {LoadFromDisk([exists |-> TRUE, data |-> d]) : d \in InstalledData}
        \cup {loadKeywords(Generated[x].data) :
                  x \in {y \in DOMAIN Generated : Generated[y].ok}}

\* a request that has read the index
HasRead == request.read

\* what a request has read is a completely built index, the one in use
ReadsWholeIndex ==
    HasRead => request.index \in WholeIndexes /\ request.index = thisKeywords

\* a Map keeps the content it was given when its providers were made
MapsAsBuilt ==
    \A p \in DOMAIN registered : maps[registered[p].map] = registered[p].keywords

\* no step changes a Map that exists, and a step that changes this.keywords
\* makes it refer to a Map that did not exist before
FreshMapSwappedIn ==
    /\ \A id \in DOMAIN maps : id \in DOMAIN maps' /\ maps'[id] = maps[id]
    /\ thisMap' # thisMap => thisMap' \notin DOMAIN maps
    /\ thisKeywords' = maps'[thisMap']

\* C21: index replacement is atomic: completion and hover requests
\* interleaved in any way with regenerate and remove commands always read a
\* completely built index, the whole previous one or the whole new one; the
\* new index is built as a fresh map and then swapped in, and the map in use
\* is never mutated in place.
C21_AtomicReplacement ==
    [][FreshMapSwappedIn /\ ReadsWholeIndex' /\ MapsAsBuilt']_vars

\* a hover is answered from the index of a regeneration while the Map that
\* was in use before is still as it was built, with another content
C21_Witness ==
    /\ request.kind = "hover"
    /\ HasRead
    /\ request.answer # <<>>
    /\ thisMap > 1
    /\ request.index = maps[thisMap]
    /\ maps[1] # maps[thisMap]
    /\ registered[1].disposed
    /\ maps[1] = registered[1].keywords
    /\ \E r \in Runs : regen[r].pc = "applied"

---------------------------------------------------------------------------
(* Claims on the remove command.                                           *)

\* the index built from the bundled definitions
DefaultIndex == loadKeywords(DefaultData)

\* the providers that are registered and not disposed
Live == {p \in DOMAIN registered : ~ registered[p].disposed}

\* this step is a whole remove command that found no file or failed to
\* delete it
RemoveWithoutEffect ==
    /\ removes' # removes
    /\ ~ reloading'.active

\* this step ends a remove command that deleted the file
RemoveSucceeds == reloading = Reloading(0, <<>>) /\ ~ reloading'.active

C22_Step ==
    /\ RemoveSucceeds =>
           /\ ~ localFile'.exists
           /\ thisKeywords' = DefaultIndex
           /\ maps'[thisMap'] = DefaultIndex
           /\ shown' = Shown("info", "Local function definition removed.", 0)
    /\ RemoveWithoutEffect =>
           /\ Installed' = Installed
           /\ <<maps, thisMap>>' = <<maps, thisMap>>
           /\ shown'.kind = (IF localFile.exists THEN "error" ELSE "info")

\* C22: remove-local-definitions reverts to defaults: after the command
\* succeeds language-local.json does not exist and the active index is the
\* one built from the bundled definitions; when no local file exists the
\* command only informs the user and leaves index and providers unchanged; if
\* deleting the file fails, index and providers are unchanged.
C22_RemoveRevertsToDefaults == [][C22_Step]_vars

\* the remove command has succeeded after a regeneration had installed
\* another index
C22_Witness ==
    /\ shown = Shown("info", "Local function definition removed.", 0)
    /\ ~ localFile.exists
    /\ thisKeywords = DefaultIndex
    /\ \E r \in Runs : regen[r].pc = "applied"
    /\ \E id \in DOMAIN maps : maps[id] # DefaultIndex
    /\ \A p \in Live : registered[p].keywords = DefaultIndex

---------------------------------------------------------------------------
(* Claims on the index and the persisted catalog.                          *)

\* no command handler is between two of its synchronous steps
NoHandlerMidStep == ~ reloading.active

\* language-local.json holds text that JSON.parse accepts
FileParses == localFile.exists /\ Parsed[localFile.data].ok

\* the index built from each text that parses
IndexOfText ==
    [t \in {u \in LocalFiles : Parsed[u].ok} |->
        loadKeywords(LanguageDataOf(Parsed[t].value))]

\* the index built from the content of the file
IndexOfFile == IndexOfText[localFile.data]

\* whenever no handler is mid-step, the active index is the one built from
\* the content of language-local.json if that file exists and from the
\* bundled definitions otherwise
C29_IndexOfFileIfExists ==
    NoHandlerMidStep =>
        IF localFile.exists
        THEN FileParses /\ thisKeywords = IndexOfFile
        ELSE thisKeywords = DefaultIndex

\* the same, with the bundled definitions also for a file that does not parse
IndexOfParsableFile ==
    NoHandlerMidStep =>
        thisKeywords = (IF FileParses THEN IndexOfFile ELSE DefaultIndex)

\* this step ends the regenerate handler r with success
RegenCompletes(r) == reloading.active /\ reloading.by = r /\ ~ reloading'.active

\* the regeneration that completes determines the file and the index
LastDetermines ==
    \A r \in Runs :
        RegenCompletes(r) =>
            /\ localFile' = [exists |-> TRUE, data |-> JSONstringify(reloading.data, 2)]
            /\ thisKeywords' = loadKeywords(reloading.data)
            /\ maps'[thisMap'] = loadKeywords(reloading.data)

\* C29: index and persisted catalog stay consistent under interleaving: for
\* any interleaving of regenerate commands (which suspend while the external
\* process runs) and remove commands, whenever no command handler is mid-step
\* the active index is the one built from the content of language-local.json
\* if that file exists and can be parsed, and from the bundled definitions
\* otherwise; with overlapping regenerations, the one that completes last
\* determines both the file and the index.
C29_IndexMatchesFile == []IndexOfParsableFile /\ [][LastDetermines]_vars

\* two regenerations overlapped: the second one invoked completed first, the
\* first one completed last with other data, and file and index are its
C29_Witness ==
    /\ regen[1].pc = "applied"
    /\ regen[2].pc = "applied"
    /\ shown = Shown("info", "Successfully regenerated SAPF function definitions", 1)
    /\ thisMap = 3
    /\ maps[2] # maps[3]
    /\ maps[1] # maps[3]
    /\ FileParses
    /\ thisKeywords = IndexOfFile
    /\ IndexOfFile # DefaultIndex

---------------------------------------------------------------------------
(* Claims on the registered providers.                                     *)

\* the live providers of one kind
LiveOf(kind) == {p \in Live : registered[p].kind = kind}

\* the providers this.languageProviders names
Current == {languageProviders[i] : i \in 1..Len(languageProviders)}

\* one completion and one hover provider are live, they are the pair kept in
\* this.languageProviders, and both read the Map this.keywords refers to
OnePairLive ==
    NoHandlerMidStep =>
        /\ Cardinality(LiveOf("completion")) = 1
        /\ Cardinality(LiveOf("hover")) = 1
        /\ Cardinality(Live) = 2
        /\ Live = Current
        /\ \A p \in Live :
               /\ registered[p].map = thisMap
               /\ maps[registered[p].map] = thisKeywords

\* a successful command first disposes the pair in use, with nothing
\* registered yet, and registers the new pair in a later step
DisposeBeforeRegister ==
    /\ (~ reloading.active /\ reloading'.active) =>
           /\ Len(registered') = Len(registered)
           /\ \A p \in DOMAIN registered' : registered'[p].disposed
    /\ (reloading.active /\ ~ reloading'.active) =>
           /\ Live = {}
           /\ Len(registered') = Len(registered) + 2
           /\ Live' = {Len(registered) + 1, Len(registered) + 2}

\* C30: exactly one provider pair is live: after any sequence (including
\* overlapping invocations) of regenerate and remove commands, whenever no
\* handler is mid-step exactly one completion provider and one hover provider
\* registered by the extension are undisposed, and both read the currently
\* active index; each successful command disposes the previous pair before
\* registering the new one.
C30_OnePairLive == []OnePairLive /\ [][DisposeBeforeRegister]_vars

\* after a regeneration and a removal the third pair is the live one and the
\* two pairs before it are disposed
C30_Witness ==
    /\ NoHandlerMidStep
    /\ Len(registered) = 6
    /\ Live = {5, 6}
    /\ \E r \in Runs : regen[r].pc = "applied"
    /\ removes = 1
    /\ thisMap = 3
    /\ \A p \in 1..4 : registered[p].disposed

---------------------------------------------------------------------------
(* Claims on the indent of comment lines and of closing lines.             *)

\* the first non-blank character of a line that is not blank
FirstNonBlank(line) == Words(line)[1][1]

\* the trimmed text of the line starts with ";;"
SemisFirst(line) ==
    /\ ~ IsBlank(line)
    /\ Len(Words(line)[1]) >= 2
    /\ Words(line)[1][1] = ";"
    /\ Words(line)[1][2] = ";"

\* the number of spaces an emitted line starts with
LeadingSpaces(out) == Cardinality({k \in 1..Len(out) : \A m \in 1..k : out[m] = " "})

\* this step is the iteration of the loop over the current line
LineProcessed == fmtPc = "loop" /\ fmtIdx < Len(fmtLines) /\ fmtIdx' = fmtIdx + 1

\* the brackets of any kind a line holds
BracketsIn(line) == CountOf(line, {"(", "[", "{", ")", "]", "}"})

C25_Step ==
    (LineProcessed /\ SemisFirst(CurrentLine)) =>
        /\ indentLevel' = indentLevel
        /\ Len(formatted') = fmtIdx'
        /\ LeadingSpaces(formatted'[fmtIdx']) = indentLevel * indentSize
        /\ formatted'[fmtIdx'] = Repeat(" ", indentLevel * indentSize)
                                     \o JoinWords(Words(CurrentLine))

\* C25: comment lines are transparent to the indent counter: a line whose
\* trimmed text starts with ';;' is emitted at the current indentLevel (never
\* outdented) and leaves indentLevel unchanged, whatever brackets it contains.
C25_CommentTransparent == [][C25_Step]_vars

\* inside a block a comment line that holds a closing bracket was emitted at
\* the level of the block, which is still the level
C25_Witness ==
    /\ fmtPc = "loop"
    /\ fmtIdx >= 2
    /\ SemisFirst(fmtLines[fmtIdx])
    /\ CountOf(fmtLines[fmtIdx], {")", "]", "}"}) > 0
    /\ indentLevel = 1
    /\ LeadingSpaces(formatted[fmtIdx]) = indentSize

\* the indent, in levels, the outdent rule gives a line at the level before it
OutdentRule(line, level) ==
    IF FirstNonBlank(line) \in {")", "]", "}"}
    THEN (IF level - 1 > 0 THEN level - 1 ELSE 0)
    ELSE level

C26_Step ==
    (LineProcessed /\ ~ IsBlank(CurrentLine) /\ ~ SemisFirst(CurrentLine)) =>
        /\ Len(formatted') = fmtIdx'
        /\ LeadingSpaces(formatted'[fmtIdx'])
               = OutdentRule(CurrentLine, indentLevel) * indentSize
        /\ indents'[fmtIdx'] = OutdentRule(CurrentLine, indentLevel) * indentSize

\* C26: outdent rule: a non-comment line whose first non-blank character is
\* ), ] or } is emitted with indent max(0, indentLevel - 1) where indentLevel
\* is the level before the line; every other non-comment, non-empty line is
\* emitted with indent exactly indentLevel.
C26_OutdentRule == [][C26_Step]_vars

\* a line inside two blocks was emitted at level 2 and the closing line after
\* it at level 1
C26_Witness ==
    /\ fmtPc = "loop"
    /\ fmtIdx = Len(fmtLines)
    /\ \E k \in 1..Len(fmtLines) :
           /\ ~ IsBlank(fmtLines[k])
           /\ FirstNonBlank(fmtLines[k]) \in {")", "]", "}"}
           /\ LevelSkippingComments(fmtLines, k - 1) = 2
           /\ LeadingSpaces(formatted[k]) = indentSize
    /\ \E k \in 1..Len(fmtLines) :
           /\ ~ IsBlank(fmtLines[k])
           /\ FirstNonBlank(fmtLines[k]) \notin {")", "]", "}"}
           /\ LevelSkippingComments(fmtLines, k - 1) = 2
           /\ LeadingSpaces(formatted[k]) = 2 * indentSize

---------------------------------------------------------------------------
(* Claims on extra closing brackets and on the balance of a returned block. *)

\* the open brackets among the first n characters that no close bracket
\* among them matches
UnclosedOpens(t, n, open, close) ==
    {o \in 0..(n - 1) :
        /\ t[o + 1] = open
        /\ ~ \E c \in (o + 1)..(n - 1) : Matched(t, o, c, open, close)}

\* the close bracket at offset n has no open bracket left to match
ExtraCloseAt(t, n, open, close) ==
    /\ n < Len(t)
    /\ t[n + 1] = close
    /\ UnclosedOpens(t, n, open, close) = {}

\* the offsets offs are the set S in increasing order
IncreasingOver(offs, S) ==
    /\ Len(offs) = Cardinality(S)
    /\ {offs[k] : k \in 1..Len(offs)} = S
    /\ \A k \in 1..(Len(offs) - 1) : offs[k] < offs[k + 1]

\* the offsets of the stack entries of findInnerBlock
IndexesOf(stack) == [k \in 1..Len(stack) |-> stack[k].index]

\* after n characters the stack of getBlockOrLine holds the unclosed open
\* brackets, and an extra close bracket has changed nothing
GbIgnoresExtraCloses(t, c, open, close) ==
    \A n \in 0..Len(t) :
        /\ IncreasingOver(GbScan(t, n, c, open, close).stack,
                          UnclosedOpens(t, n, open, close))
        /\ ExtraCloseAt(t, n, open, close) =>
               GbScan(t, n + 1, c, open, close) = GbScan(t, n, c, open, close)

\* the same for findInnerBlock, whose entries also hold their depth
FiIgnoresExtraCloses(t, c, open, close) ==
    \A n \in 0..Len(t) :
        /\ IncreasingOver(IndexesOf(FiScan(t, n, c, open, close).stack),
                          UnclosedOpens(t, n, open, close))
        /\ \A k \in 1..Len(FiScan(t, n, c, open, close).stack) :
               FiScan(t, n, c, open, close).stack[k].depth = k - 1
        /\ ExtraCloseAt(t, n, open, close) =>
               FiScan(t, n + 1, c, open, close) = FiScan(t, n, c, open, close)

\* the calls of getBlockOrLine that scan: no selection, no exception
GbScanned ==
    /\ result.op \in {"getBlockOrLine", "getBlockOrLineMonolithic", "getBlockOrLineExtension"}
    /\ result.status = "returned"
    /\ NoSelection

\* the calls of findInnerBlock that scan: the kind is one of the table
FiScanned == result.op = "findInnerBlock" /\ bracketKind \in DOMAIN brackets

\* C27: extra closing brackets are ignored by both locators: a close bracket
\* met while the open-bracket stack is empty pops nothing and produces no
\* candidate, the stack never underflows, and scanning continues so that
\* balanced pairs later in the text are still matched.
C27_ExtraClosesIgnored ==
    /\ GbScanned =>
           /\ GbIgnoresExtraCloses(text, cursor, EffPair(bracketKind)[1], EffPair(bracketKind)[2])
           /\ Cands # {} => \E p \in Cands : IsBlockOf(result, p)
    /\ FiScanned =>
           /\ FiIgnoresExtraCloses(text, cursor, EffPair(bracketKind)[1], EffPair(bracketKind)[2])
           /\ FiCands # {} => \E p \in FiCands : IsBlockOf(result, p)

\* an extra close bracket comes before and another after the pair around the
\* cursor, and the pair's block is returned
C27_Witness ==
    /\ result.op = "getBlockOrLine"
    /\ NoSelection
    /\ bracketKind = "round"
    /\ \E p \in Cands :
           /\ IsBlockOf(result, p)
           /\ \E n \in 0..(p[1] - 1) : ExtraCloseAt(text, n, "(", ")")
           /\ \E n \in (p[2] + 1)..(Len(text) - 1) : ExtraCloseAt(text, n, "(", ")")

\* the call returned a bracket match, not a line and not the selection
ReturnedMatch ==
    \/ /\ GbScanned
       /\ GbScan(text, Len(text), cursor, EffPair(bracketKind)[1],
                 EffPair(bracketKind)[2]).start # -1
    \/ FiScanned /\ result.status = "returned"

\* every open bracket of s is closed in s, every close bracket of s matches
\* an open bracket of s, and no prefix of s has more closes than opens
BalancedText(s, open, close) ==
    /\ \A o \in 0..(Len(s) - 1) :
           s[o + 1] = open => \E c \in 0..(Len(s) - 1) : Matched(s, o, c, open, close)
    /\ \A c \in 0..(Len(s) - 1) :
           s[c + 1] = close => \E o \in 0..(Len(s) - 1) : Matched(s, o, c, open, close)
    /\ \A m \in 0..Len(s) : CountIn(s, 0, m, close) <= CountIn(s, 0, m, open)

\* C28: whenever getBlockOrLine or findInnerBlock returns a bracket match, the
\* returned text is balanced with respect to the configured pair: every open
\* bracket in it is closed inside it, every close bracket in it matches an
\* open bracket inside it, and no prefix of it has more closes than opens.
C28_ReturnedTextBalanced ==
    ReturnedMatch =>
        BalancedText(result.text, EffPair(bracketKind)[1], EffPair(bracketKind)[2])

\* the block returned holds a pair of its own while the text around it has
\* brackets that match nothing
C28_Witness ==
    /\ result.op = "getBlockOrLine"
    /\ bracketKind = "round"
    /\ ReturnedMatch
    /\ ~ RoundBalanced
    /\ \E o, c \in 0..(Len(result.text) - 1) : Matched(result.text, o, c, "(", ")")
    /\ BalancedText(result.text, "(", ")")

---------------------------------------------------------------------------
(* text/utils getParagraph and the commands sapf.evalParagraph and         *)
(* sapf.evalLine.                                                          *)

MaxParLen == 4

\* faulty variant of StartLineFrom: the blank line above is taken for the
\* first line of the paragraph
RECURSIVE StartLineFrom_KeepBlank(_, _)
StartLineFrom_KeepBlank(ls, i) ==
    IF Trim(ls[i + 1]) = <<>> THEN i
    ELSE IF i = 0 THEN 0
    ELSE StartLineFrom_KeepBlank(ls, i - 1)

\* the first loop from line i upwards: startLine when the loop ends
RECURSIVE StartLineFrom(_, _)
StartLineFrom(ls, i) ==
    IF Trim(ls[i + 1]) = <<>> THEN i + 1
    ELSE IF i = 0 THEN 0
    ELSE StartLineFrom(ls, i - 1)

\* the second loop from line i downwards: endLine when the loop ends
RECURSIVE EndLineFrom(_, _, _)
EndLineFrom(ls, i, totalLines) ==
    IF Trim(ls[i + 1]) = <<>> THEN i - 1
    ELSE IF i = totalLines - 1 THEN totalLines - 1
    ELSE EndLineFrom(ls, i + 1, totalLines)

\* new vscode.Range(startPos, endPos) over the lines startLine .. endLine
ParagraphRange(ls, startLine, endLine) ==
    <<[line |-> startLine, character |-> 0],
      [line |-> endLine, character |-> Len(ls[endLine + 1])]>>

\* document.getText(range)
GetText(t, range) == Slice(t, OffsetAt(t, range[1]), OffsetAt(t, range[2]))

\* lines 61-75: the bounds are clamped; the paragraph, or the line when the
\* bounds have crossed
ParagraphOf(t, c, a, ls, startLine, endLine) ==
    IF Max(0, startLine) > Min(Len(ls) - 1, endLine)
    THEN getLine(t, c, a)
    ELSE BlockInfo(Trim(GetText(t, ParagraphRange(ls, Max(0, startLine),
                                                   Min(Len(ls) - 1, endLine)))),
                   ParagraphRange(ls, Max(0, startLine), Min(Len(ls) - 1, endLine)))

\* getParagraph(editor)
getParagraph(t, c, a) ==
    IF SelText(t, c, a) # <<>>
    THEN BlockInfo(SelText(t, c, a), SelectionRange(t, c, a))
    ELSE ParagraphOf(t, c, a, Split(t),
                     StartLineFrom(Split(t), LineOf(t, c)),
                     EndLineFrom(Split(t), LineOf(t, c), Len(Split(t))))

\* characters of the exhaustively enumerated documents
ParAlphabet == {"a", "b", " ", "\n"}

\* longer documents: several paragraphs, white-space-only lines, indents
ParExamples ==
    { <<"a", "\n", "\n", " ", "b", " ", "a", "\n", "b", " ", "\n", " ", "\t", "\n", "a">>,
      <<"a", " ", "b", "\n", "b", "\n", "\n", "\n", " ", "a", " ", "\n", "b">>,
      <<" ", "\n", "a", "\n", "b", "\n", "a", "\n">>,
      <<"\t", "\n", "\n", " ", "a", "\n">> }

ParTexts == SeqsUpTo(ParAlphabet, MaxParLen) \cup ParExamples

ParInit ==
    /\ text \in ParTexts
    /\ cursor \in 0..Len(text)
    /\ anchor \in {k \in 0..Len(text) : k - cursor <= MaxSel /\ cursor - k <= MaxSel}
    /\ bracketKind = defaultBracketType
    /\ result = Idle
    /\ warning = FALSE
    /\ sent = <<>>

\* sapf.evalParagraph
EvalParagraph ==
    EvalWith("getParagraph",
             Outcome("returned", getParagraph(text, cursor, anchor), FALSE))

\* sapf.evalLine
EvalLine ==
    EvalWith("getLine", Outcome("returned", getLine(text, cursor, anchor), FALSE))

InitParagraph == ParInit /\ FmtIdle /\ LangIdle /\ CmdIdle /\ ReplIdle

NextParagraph ==
    \/ EvalParagraph /\ UNCHANGED <<fmtVars, langVars, cmdVars, replVars>>
    \/ EvalLine /\ UNCHANGED <<fmtVars, langVars, cmdVars, replVars>>

SpecParagraph == InitParagraph /\ [][NextParagraph]_vars

---------------------------------------------------------------------------
(* Claim on the paragraph, stated on the lines of the text.                *)

\* the line the cursor is on, counted from 0
CursorLine == LineOf(text, cursor)

\* the lines k for which every line from k to the cursor line is non-blank
RunLines ==
    {k \in 0..(Len(Split(text)) - 1) :
        \A m \in 0..(Len(Split(text)) - 1) :
            ((k <= m /\ m <= CursorLine) \/ (CursorLine <= m /\ m <= k))
                => ~ IsBlank(Split(text)[m + 1])}

RunFirst == CHOOSE k \in RunLines : \A m \in RunLines : k <= m

RunLast == CHOOSE k \in RunLines : \A m \in RunLines : m <= k

\* s without the white space before its first and after its last non-white
\* character
Trimmed(s) ==
    IF IsBlank(s) THEN <<>>
    ELSE SubSeq(s,
                CHOOSE j \in 1..Len(s) : ~ IsWhite(s[j]) /\ \A m \in 1..(j - 1) : IsWhite(s[m]),
                CHOOSE j \in 1..Len(s) : ~ IsWhite(s[j]) /\ \A m \in (j + 1)..Len(s) : IsWhite(s[m]))

\* the lines first .. last of the text, joined
LinesJoined(first, last) == Join(SubSeq(Split(text), first + 1, last + 1))

\* the range from the start of line first to the end of line last
LinesRange(first, last) ==
    <<[line |-> first, character |-> 0],
      [line |-> last, character |-> Len(Split(text)[last + 1])]>>

\* C23: paragraph evaluation: with no selection and the cursor on a non-blank
\* line, getParagraph returns the maximal run of consecutive non-blank lines
\* that contains the cursor line (bounded on each side by the nearest empty
\* or white-space-only line or by the document boundary), trimmed, with a
\* range covering those lines; with the cursor on a blank line it falls back
\* to getLine for that line.
C23_Paragraph ==
    (result.op = "getParagraph" /\ NoSelection) =>
        /\ result.status = "returned"
        /\ sent = <<result.text>>
        /\ IF IsBlank(Split(text)[CursorLine + 1])
           THEN /\ result.text = <<>>
                /\ result.range = LinesRange(CursorLine, CursorLine)
           ELSE /\ result.text = Trimmed(LinesJoined(RunFirst, RunLast))
                /\ result.range = LinesRange(RunFirst, RunLast)
                /\ RunFirst = 0 \/ IsBlank(Split(text)[RunFirst])
                /\ RunLast = Len(Split(text)) - 1 \/ IsBlank(Split(text)[RunLast + 2])

\* the paragraph of two lines around the cursor is returned without the
\* indent of its first line; an empty line is above it and a line of white
\* space below it, and other paragraphs are before and after
C23_Witness ==
    /\ result.op = "getParagraph"
    /\ NoSelection
    /\ RunLines # {}
    /\ RunLast = RunFirst + 1
    /\ RunFirst > 1
    /\ RunLast < Len(Split(text)) - 2
    /\ Split(text)[RunFirst] = <<>>
    /\ Split(text)[RunLast + 2] # <<>>
    /\ result.range = LinesRange(RunFirst, RunLast)
    /\ result.text # LinesJoined(RunFirst, RunLast)

---------------------------------------------------------------------------
(* repl/manager ReplManager: the handle of the REPL terminal.  A terminal  *)
(* is known by its identity, its index in terminals.  createTerminal may   *)
(* fail, as the documentation of ensure says; sendText on a terminal that  *)
(* is no longer open either loses the text or throws.                      *)

MaxTerminals == 2
MaxTexts == 2

\* a terminal of the editor that ReplManager did not make
OtherTerminal == 0 - 1

\* the configurations of sapf.binaryPath and sapf.preludePath, and whether
\* fs.existsSync finds the prelude
ReplConfigs ==
    { [binaryPath |-> <<"s", "a", "p", "f">>, preludePath |-> <<>>, exists |-> FALSE],
      [binaryPath |-> <<"s", "a", "p", "f">>, preludePath |-> <<"p">>, exists |-> TRUE],
      [binaryPath |-> <<"s", "a", "p", "f">>, preludePath |-> <<"p">>, exists |-> FALSE] }

\* the texts the commands send, here the one of sapf.stop
ReplCodes == { <<"s", "t", "o", "p">> }

\* const command of ensure
StartupCommand(cfg) ==
    cfg.binaryPath \o (IF cfg.preludePath # <<>> /\ cfg.exists
                       THEN <<" ", "-", "p", " ">> \o cfg.preludePath
                       ELSE <<>>)

\* a notification of ReplManager
Notice(kind, msg) == [kind |-> kind, text |-> msg]

\* vscode.window.createTerminal('sapf')
createTerminal == [state |-> "open", texts |-> <<>>, shown |-> FALSE]

\* terminal.sendText(text) of the terminal t, called by the method by
sendText(ts, t, txt, by) ==
    IF ts[t].state = "open"
    THEN [ts EXCEPT ![t].texts = Append(@, [text |-> txt, by |-> by])]
    ELSE ts

\* ensure(): what it leaves in this.terminal, the terminals, what it showed
\* and whether it threw
ensure(held, ts, cfg, createThrows) ==
    IF held # 0
    THEN [terminal |-> held, terminals |-> ts, shown |-> <<>>, threw |-> FALSE]
    ELSE IF createThrows
    THEN [terminal |-> 0, terminals |-> ts,
          shown |-> (IF cfg.preludePath # <<>> /\ ~ cfg.exists
                     THEN <<Notice("warning", "Prelude file not found")>>
                     ELSE <<>>)
                    \o <<Notice("error", "Failed to start SAPF terminal")>>,
          threw |-> TRUE]
    ELSE [terminal |-> Len(ts) + 1,
          terminals |->
              [sendText(Append(ts, createTerminal), Len(ts) + 1,
                        StartupCommand(cfg), "ensure")
                   EXCEPT ![Len(ts) + 1].shown = TRUE],
          shown |-> IF cfg.preludePath # <<>> /\ ~ cfg.exists
                    THEN <<Notice("warning", "Prelude file not found")>>
                    ELSE <<>>,
          threw |-> FALSE]

\* what send does once ensure has ended as e
SendAfter(e, code, sendThrows) ==
    IF e.threw
    THEN [e EXCEPT !.threw = FALSE,
                   !.shown = Append(@, Notice("error", "Failed to send code to SAPF"))]
    ELSE IF e.terminals[e.terminal].state # "open" /\ sendThrows
    THEN [e EXCEPT !.shown = Append(@, Notice("error", "Failed to send code to SAPF"))]
    ELSE [e EXCEPT !.terminals = sendText(@, e.terminal, code, "send")]

\* faulty variant of send: without the try and catch
send_Uncaught(held, ts, code, cfg, createThrows, sendThrows) ==
    IF ensure(held, ts, cfg, createThrows).threw
    THEN ensure(held, ts, cfg, createThrows)
    ELSE SendAfter(ensure(held, ts, cfg, createThrows), code, sendThrows)

\* send(code)
send(held, ts, code, cfg, createThrows, sendThrows) ==
    SendAfter(ensure(held, ts, cfg, createThrows), code, sendThrows)

\* handleClose(closed): what it leaves in this.terminal
handleClose(held, closed) == IF closed = held THEN 0 ELSE held

ReplCalled(op, threw, closed) == [op |-> op, threw |-> threw, closed |-> closed]

\* new ReplManager() in activate
ReplInit ==
    /\ terminal = 0
    /\ terminals = <<>>
    /\ replShown = <<>>
    /\ replCall = ReplCalled("none", FALSE, 0)

\* the room of the model: a call that would make a terminal or add a text
\* beyond the bounds is left out
ReplRoom(code) ==
    IF terminal = 0
    THEN Len(terminals) < MaxTerminals
    ELSE code = <<>> \/ Len(terminals[terminal].texts) < MaxTexts

\* repl.ensure(), the autostart of activate
Ensure(cfg, createThrows) ==
    /\ ReplRoom(<<>>)
    /\ terminal' = ensure(terminal, terminals, cfg, createThrows).terminal
    /\ terminals' = ensure(terminal, terminals, cfg, createThrows).terminals
    /\ replShown' = ensure(terminal, terminals, cfg, createThrows).shown
    /\ replCall' = ReplCalled("ensure",
                              ensure(terminal, terminals, cfg, createThrows).threw, 0)

\* repl.send(code) of the eval commands and of sapf.stop, clear, cleard, quit
Send(code, cfg, createThrows, sendThrows) ==
    /\ ReplRoom(code)
    /\ terminal' = send(terminal, terminals, code, cfg, createThrows, sendThrows).terminal
    /\ terminals' = send(terminal, terminals, code, cfg, createThrows, sendThrows).terminals
    /\ replShown' = send(terminal, terminals, code, cfg, createThrows, sendThrows).shown
    /\ replCall' = ReplCalled("send",
                              send(terminal, terminals, code, cfg,
                                   createThrows, sendThrows).threw, 0)

\* repl.dispose()
Dispose ==
    /\ terminals' = IF terminal # 0
                    THEN [terminals EXCEPT ![terminal].state = "disposed"]
                    ELSE terminals
    /\ terminal' = 0
    /\ replShown' = <<>>
    /\ replCall' = ReplCalled("dispose", FALSE, 0)

\* repl.handleClose(closed), the listener of onDidCloseTerminal
HandleClose(closed) ==
    /\ terminal' = handleClose(terminal, closed)
    /\ replShown' = <<>>
    /\ replCall' = ReplCalled("handleClose", FALSE, closed)
    /\ UNCHANGED terminals

\* the user closes a terminal of the manager in the editor
UserCloses(t) ==
    /\ terminals[t].state = "open"
    /\ terminals' = [terminals EXCEPT ![t].state = "closed"]
    /\ replCall' = ReplCalled("userCloses", FALSE, t)
    /\ UNCHANGED <<terminal, replShown>>

InitRepl == ReplInit /\ LocIdle /\ FmtIdle /\ LangIdle /\ CmdIdle

NextRepl ==
    \/ \E cfg \in ReplConfigs, c \in BOOLEAN :
           Ensure(cfg, c) /\ UNCHANGED <<locVars, fmtVars, langVars, cmdVars>>
    \/ \E code \in ReplCodes, cfg \in ReplConfigs, c \in BOOLEAN, s \in BOOLEAN :
           Send(code, cfg, c, s) /\ UNCHANGED <<locVars, fmtVars, langVars, cmdVars>>
    \/ Dispose /\ UNCHANGED <<locVars, fmtVars, langVars, cmdVars>>
    \/ \E t \in (DOMAIN terminals) \cup {OtherTerminal} :
           HandleClose(t) /\ UNCHANGED <<locVars, fmtVars, langVars, cmdVars>>
    \/ \E t \in DOMAIN terminals :
           UserCloses(t) /\ UNCHANGED <<locVars, fmtVars, langVars, cmdVars>>

SpecRepl == InitRepl /\ [][NextRepl]_vars

\* this.terminal is undefined or one terminal the manager made and did not
\* dispose
HoldsAtMostOne ==
    /\ terminal \in 0..Len(terminals)
    /\ terminal # 0 => terminals[terminal].state # "disposed"

\* the first text of every terminal is the startup command sent by ensure,
\* every later text is a code text sent by send
StartupFirst ==
    \A t \in DOMAIN terminals :
        /\ terminals[t].texts # <<>>
        /\ terminals[t].texts[1].by = "ensure"
        /\ terminals[t].texts[1].text \in {StartupCommand(cfg) : cfg \in ReplConfigs}
        /\ \A k \in 2..Len(terminals[t].texts) : terminals[t].texts[k].by = "send"

SendNeverThrows == replCall.op = "send" => ~ replCall.threw

\* the terminals that were there are as they were, but for the texts of t
OthersKept(t) ==
    \A u \in DOMAIN terminals :
        /\ terminals'[u].state = terminals[u].state
        /\ u # t => terminals'[u] = terminals[u]

\* send with a held terminal: the handle and the number of terminals stay,
\* the held terminal gets at most the code text at its end
SendReuses ==
    /\ terminal' = terminal
    /\ Len(terminals') = Len(terminals)
    /\ OthersKept(terminal)
    /\ \/ terminals'[terminal].texts = terminals[terminal].texts
       \/ /\ Len(terminals'[terminal].texts) = Len(terminals[terminal].texts) + 1
          /\ SubSeq(terminals'[terminal].texts, 1, Len(terminals[terminal].texts))
                 = terminals[terminal].texts
          /\ terminals'[terminal].texts[Len(terminals'[terminal].texts)].by = "send"

\* send with no held terminal makes a terminal that was not there before,
\* holds it and sends it the startup command and then the code
SendCreatesFresh ==
    /\ Len(terminals') = Len(terminals) + 1
    /\ terminal' = Len(terminals) + 1
    /\ OthersKept(0)
    /\ terminals'[terminal'].state = "open"
    /\ Len(terminals'[terminal'].texts) = 2
    /\ terminals'[terminal'].texts[1].by = "ensure"
    /\ terminals'[terminal'].texts[2].by = "send"

\* createTerminal failed: nothing is made or held and the error is shown
SendFailsToCreate ==
    /\ terminal' = 0
    /\ terminals' = terminals
    /\ \E k \in DOMAIN replShown' :
           replShown'[k] = Notice("error", "Failed to start SAPF terminal")
    /\ replShown'[Len(replShown')] = Notice("error", "Failed to send code to SAPF")

\* dispose and handleClose of the held terminal leave no terminal held;
\* handleClose of another terminal leaves the handle as it was
Releases ==
    /\ replCall'.op = "dispose" =>
           /\ terminal' = 0
           /\ terminal # 0 => terminals'[terminal].state = "disposed"
    /\ replCall'.op = "handleClose" =>
           /\ terminals' = terminals
           /\ terminal' = IF replCall'.closed = terminal THEN 0 ELSE terminal

\* the claim as it was stated: a send with no held terminal always makes one
C24_StepAsStated ==
    /\ replCall'.op = "send" =>
           IF terminal # 0 THEN SendReuses ELSE SendCreatesFresh
    /\ Releases

C24_SendAlwaysCreates ==
    [](HoldsAtMostOne /\ StartupFirst /\ SendNeverThrows) /\ [][C24_StepAsStated]_vars

C24_Step ==
    /\ replCall'.op = "send" =>
           IF terminal # 0 THEN SendReuses
           ELSE SendCreatesFresh \/ SendFailsToCreate
    /\ Releases

\* C24: over every sequence of ensure, send, dispose and handleClose the
\* manager holds at most one terminal, which it made and did not dispose;
\* send with a held terminal keeps the handle and makes no terminal; every
\* terminal the manager made got the startup command first and only code
\* texts after it; dispose and handleClose of the held terminal release the
\* handle, and the next send makes a fresh terminal and holds it unless
\* createTerminal throws, in which case it holds none and shows the error;
\* handleClose of another terminal keeps the handle; send never throws
C24_HandleLifecycle ==
    [](HoldsAtMostOne /\ StartupFirst /\ SendNeverThrows) /\ [][C24_Step]_vars

\* a send after dispose or a close made the second terminal, which is held
\* and has the startup command and the code
C24_Witness ==
    /\ replCall.op = "send"
    /\ Len(terminals) = 2
    /\ terminal = 2
    /\ terminals[1].state \in {"disposed", "closed"}
    /\ Len(terminals[1].texts) >= 2
    /\ Len(terminals[2].texts) = 2
    /\ terminals[2].texts[2].by = "send"

============================================================================
